---- MODULE Spec2Model ----
(***************************************************************************)
(* Model of the pico-modbus-gateway: the Modbus-TCP server                 *)
(* (modbus_tcp_server.py), the shared Modbus-RTU master (modbus_rtu.py)    *)
(* and the HTTP API handlers that call the same RTU master                 *)
(* (http_server.py).  Bytes are integers 0..255, byte strings are          *)
(* sequences of bytes.                                                     *)
(***************************************************************************)
EXTENDS Integers, Sequences, FiniteSets, TLC

(***************************************************************************)
(* Bounds of the model.                                                    *)
(***************************************************************************)
\* TCP connections that may be opened in the concurrency specification
NumConns == 2
\* requests the clients (TCP and API) make in one run
MaxReqs == 2
\* length of the byte strings the CRC is computed over in the line specification
MaxCrcLen == 3

(***************************************************************************)
(* Byte-level helpers.                                                     *)
(***************************************************************************)
Min(a, b) == IF a < b THEN a ELSE b

\* Python slice s[lo:hi] with 0-based lo, hi (clamped to the length)
Slice(s, lo, hi) ==
    LET h == Min(hi, Len(s))
    IN  IF lo >= h THEN <<>> ELSE [i \in 1..(h - lo) |-> s[lo + i]]

\* the first n bytes of s / what is left after them
Take(s, n) == Slice(s, 0, n)
Drop(s, n) == Slice(s, n, Len(s))

RECURSIVE BitXor(_, _)
\* a ^ b on non-negative integers (x, y: the arguments, evaluated once)
BitXor(a, b) ==
    CHOOSE r \in
        { IF x = 0 THEN y
          ELSE IF y = 0 THEN x
          ELSE (((x % 2) + (y % 2)) % 2) + 2 * BitXor(x \div 2, y \div 2) :
            x \in {a}, y \in {b} } : TRUE

RECURSIVE BitAnd(_, _)
\* a & b on non-negative integers (x, y: the arguments, evaluated once)
BitAnd(a, b) ==
    CHOOSE r \in
        { IF x = 0 \/ y = 0 THEN 0
          ELSE ((x % 2) * (y % 2)) + 2 * BitAnd(x \div 2, y \div 2) :
            x \in {a}, y \in {b} } : TRUE

\* a | b on non-negative integers
BitOr(a, b) == a + b - BitAnd(a, b)

RECURSIVE Pow2(_)
Pow2(n) == IF n = 0 THEN 1 ELSE 2 * Pow2(n - 1)

\* struct.pack(">H", v): two bytes, big-endian
PackH(v) == << (v \div 256) % 256, v % 256 >>

\* struct.unpack(">H", b)[0] of a two-byte string
UnpackH(b) == b[1] * 256 + b[2]

(***************************************************************************)
(* modbus_rtu.py: CRC16.                                                   *)
(***************************************************************************)
\* faulty variant of XorA001: the polynomial is not applied
XorA001_NoPolynomial(x) == x

\* x ^ 0xA001 for x < 0x8000: bit 15 is set, bits 13 and 0 are flipped
XorA001(x) ==
    32768 + (IF (x \div 8192) % 2 = 1 THEN x - 8192 ELSE x + 8192)
          + (IF x % 2 = 1 THEN -1 ELSE 1)

RECURSIVE CrcShift(_, _)
\* the inner loop: n rounds of shift right, xor 0xA001 when the low bit is set
\* (v: the value of crc, evaluated once)
CrcShift(crc, n) ==
    CHOOSE r \in
        { IF n = 0 THEN v
          ELSE IF v % 2 = 1
               THEN CrcShift(XorA001(v \div 2), n - 1)
               ELSE CrcShift(v \div 2, n - 1) : v \in {crc} } : TRUE

RECURSIVE CrcFold(_, _, _)
\* the outer loop over data[i..] (v, d, j: the arguments, evaluated once)
CrcFold(crc, data, i) ==
    CHOOSE r \in
        { IF j > Len(d) THEN v
          ELSE CrcFold(CrcShift((v \div 256) * 256 + BitXor(v % 256, d[j]), 8),
                       d, j + 1) : v \in {crc}, d \in {data}, j \in {i} } : TRUE

\* _calculate_crc: crc.to_bytes(2, "little")
calculate_crc(data) ==
    CHOOSE r \in
        { << crc % 256, crc \div 256 >> : crc \in {CrcFold(65535, data, 1)} } : TRUE

(***************************************************************************)
(* modbus_rtu.py: the results an RTU operation hands to its caller.        *)
(* kind "None", "False", "True" are the Python values; "error" is the      *)
(* dict {"error": code}; "list" is the list of registers or of booleans;   *)
(* "raise" is an exception leaving the operation.                          *)
(***************************************************************************)
ResNone == [kind |-> "None", code |-> 0, vals |-> <<>>]
ResFalse == [kind |-> "False", code |-> 0, vals |-> <<>>]
ResTrue == [kind |-> "True", code |-> 0, vals |-> <<>>]
ResError(c) == [kind |-> "error", code |-> c, vals |-> <<>>]
ResList(v) == [kind |-> "list", code |-> 0, vals |-> v]
ResRaise == [kind |-> "raise", code |-> 0, vals |-> <<>>]

\* the argument record of one RTU operation: function code, slave id, address,
\* count (reads), value (single writes), values (multiple writes)
RtuCall(fc, slave, addr, count, value, values) ==
    [fc |-> fc, slave |-> slave, addr |-> addr, count |-> count,
     value |-> value, values |-> values]

\* faulty variant of read_frame: the address goes out low byte first
read_frame_LowByteFirst(fc, slave_id, start_addr, count) ==
    << slave_id, fc, start_addr % 256, (start_addr \div 256) % 256,
       (count \div 256) % 256, count % 256 >>

\* the six-byte frame of the four read operations
read_frame(fc, slave_id, start_addr, count) ==
    << slave_id, fc, (start_addr \div 256) % 256, start_addr % 256,
       (count \div 256) % 256, count % 256 >>

\* write_single_register
write_single_register_frame(slave_id, register_addr, value) ==
    << slave_id, 6, (register_addr \div 256) % 256, register_addr % 256,
       (value \div 256) % 256, value % 256 >>

\* write_single_coil: value is a boolean
write_single_coil_frame(slave_id, coil_addr, value) ==
    LET coil_value == IF value THEN 65280 ELSE 0
    IN  << slave_id, 5, (coil_addr \div 256) % 256, coil_addr % 256,
           (coil_value \div 256) % 256, coil_value % 256 >>

RECURSIVE RegBytes(_, _)
\* for value in values: frame += bytes([(value >> 8) & 0xFF, value & 0xFF])
RegBytes(values, i) ==
    IF i > Len(values) THEN <<>>
    ELSE << (values[i] \div 256) % 256, values[i] % 256 >> \o RegBytes(values, i + 1)

\* write_multiple_registers
write_multiple_registers_frame(slave_id, start_addr, values) ==
    LET count == Len(values)
        byte_count == count * 2
    IN  << slave_id, 16, (start_addr \div 256) % 256, start_addr % 256,
           (count \div 256) % 256, count % 256, byte_count >>
        \o RegBytes(values, 1)

RECURSIVE PackBits(_, _, _)
\* one byte of packed booleans: bits i*8 .. i*8+7 of values, LSB first
PackBits(values, i, bit) ==
    IF bit > 7 THEN 0
    ELSE (IF i * 8 + bit < Len(values) /\ values[i * 8 + bit + 1]
          THEN Pow2(bit) ELSE 0) + PackBits(values, i, bit + 1)

\* the packed bytes of a list of booleans, byte_count bytes
PackBytes(values, byte_count) ==
    [i \in 1..byte_count |-> PackBits(values, i - 1, 0)]

\* faulty variant of write_multiple_coils_frame: the byte count is rounded down
write_multiple_coils_frame_RoundDown(slave_id, start_addr, values) ==
    LET count == Len(values)
        byte_count == count \div 8
    IN  << slave_id, 15, (start_addr \div 256) % 256, start_addr % 256,
           (count \div 256) % 256, count % 256, byte_count >>
        \o PackBytes(values, byte_count)

\* write_multiple_coils
write_multiple_coils_frame(slave_id, start_addr, values) ==
    LET count == Len(values)
        byte_count == (count + 7) \div 8
    IN  << slave_id, 15, (start_addr \div 256) % 256, start_addr % 256,
           (count \div 256) % 256, count % 256, byte_count >>
        \o PackBytes(values, byte_count)

\* the frame an operation builds, before the CRC
BuildFrame(call) ==
    CASE call.fc \in {1, 2, 3, 4} ->
            read_frame(call.fc, call.slave, call.addr, call.count)
      [] call.fc = 5 -> write_single_coil_frame(call.slave, call.addr, call.value)
      [] call.fc = 6 -> write_single_register_frame(call.slave, call.addr, call.value)
      [] call.fc = 15 -> write_multiple_coils_frame(call.slave, call.addr, call.values)
      [] call.fc = 16 -> write_multiple_registers_frame(call.slave, call.addr, call.values)

\* _send_request: the complete frame written to the UART
send_request(frame) == frame \o calculate_crc(frame)

\* uart.read(n): the bytes read, <<>> standing for None (nothing arrived)
UartRead(rx, n) == Take(rx, n)

\* the CRC test of _receive_response: received_crc /= calculated_crc
CrcMismatch(response) ==
    Slice(response, Len(response) - 2, Len(response))
        /= calculate_crc(Slice(response, 0, Len(response) - 2))

\* _receive_response on hardware, with rx the bytes the device puts on the line:
\* kind "frame" (the response), "none" (return None) or "raise"; rest is what
\* stays in the UART buffer
receive_response_hw(rx) ==
    LET first == UartRead(rx, 4)
        after == Drop(rx, 4)
        expected_len == IF first[2] \in {1, 2, 3, 4} THEN first[3] + 5 ELSE 8
        more == UartRead(after, expected_len - Len(first))
        response == first \o more
    IN  IF Len(first) < 4
        THEN [kind |-> "none", frame |-> <<>>, rest |-> Drop(rx, Len(first))]
        ELSE IF Len(first) < expected_len /\ more = <<>>
        THEN [kind |-> "raise", frame |-> <<>>, rest |-> after]
        ELSE IF CrcMismatch(response)
        THEN [kind |-> "none", frame |-> <<>>, rest |-> Drop(rx, Len(response))]
        ELSE [kind |-> "frame", frame |-> response, rest |-> Drop(rx, Len(response))]

\* _receive_response: off hardware it raises OSError whatever the line carries
receive_response(hw, rx) ==
    IF hw THEN receive_response_hw(rx)
    ELSE [kind |-> "raise", frame |-> <<>>, rest |-> rx]

RECURSIVE ParseRegisters(_, _, _)
\* for i in range(0, byte_count, 2): (data[i] << 8) | data[i + 1]
\* the result is <<ok, registers>>; ok is FALSE on an IndexError
ParseRegisters(data, byte_count, i) ==
    IF i >= byte_count THEN <<TRUE, <<>>>>
    ELSE IF i + 1 >= Len(data) THEN <<FALSE, <<>>>>
    ELSE LET tl == ParseRegisters(data, byte_count, i + 2)
         IN  <<tl[1], <<data[i + 1] * 256 + data[i + 2]>> \o tl[2]>>

\* the decoding of read_holding_registers and read_input_registers
decode_registers(response) ==
    LET byte_count == response[3]
        data == Slice(response, 3, 3 + byte_count)
        parsed == ParseRegisters(data, byte_count, 0)
    IN  IF parsed[1] THEN ResList(parsed[2]) ELSE ResRaise

\* faulty variant of UnpackBits: the bits of each byte are taken MSB first
UnpackBits_MsbFirst(data, count) ==
    [k \in 1..Min(count, 8 * Len(data)) |->
        (data[((k - 1) \div 8) + 1] \div Pow2(7 - ((k - 1) % 8))) % 2 = 1]

\* the booleans of data, LSB first within each byte, at most count of them
UnpackBits(data, count) ==
    [k \in 1..Min(count, 8 * Len(data)) |->
        (data[((k - 1) \div 8) + 1] \div Pow2((k - 1) % 8)) % 2 = 1]

\* the decoding of read_coils and read_discrete_inputs
decode_bits(response, count) ==
    LET byte_count == response[3]
        data == Slice(response, 3, 3 + byte_count)
    IN  ResList(UnpackBits(data, count))

\* faulty variant of rtu_result: the error code is taken from the function-code byte
rtu_result_WrongByte(call, got) ==
    IF got.kind = "raise" THEN ResRaise
    ELSE IF got.kind = "none"
    THEN (IF call.fc \in {1, 2, 3, 4} THEN ResNone ELSE ResFalse)
    ELSE IF got.frame[2] >= 128 THEN ResError(got.frame[2])
    ELSE IF call.fc \in {3, 4} THEN decode_registers(got.frame)
    ELSE IF call.fc \in {1, 2} THEN decode_bits(got.frame, call.count)
    ELSE ResTrue

\* what an operation returns for the outcome of _receive_response
rtu_result(call, got) ==
    IF got.kind = "raise" THEN ResRaise
    ELSE IF got.kind = "none"
    THEN (IF call.fc \in {1, 2, 3, 4} THEN ResNone ELSE ResFalse)
    ELSE IF got.frame[2] >= 128 THEN ResError(got.frame[3])
    ELSE IF call.fc \in {3, 4} THEN decode_registers(got.frame)
    ELSE IF call.fc \in {1, 2} THEN decode_bits(got.frame, call.count)
    ELSE ResTrue

(***************************************************************************)
(* modbus_tcp_server.py: the MBAP header and the eight PDU handlers.  Each *)
(* handler is split at its await of the RTU operation: the request half    *)
(* validates the PDU and either answers at once or names the RTU call; the *)
(* reply half maps the operation's result to the reply PDU.                *)
(***************************************************************************)
\* struct.unpack(">HHHB", header)
unpack_header(header) ==
    [transaction_id |-> UnpackH(Slice(header, 0, 2)),
     protocol_id |-> UnpackH(Slice(header, 2, 4)),
     length |-> UnpackH(Slice(header, 4, 6)),
     unit_id |-> header[7]]

\* struct.pack(">HHHB", transaction_id, 0, response_length, unit_id)
pack_header(transaction_id, protocol_id, length, unit_id) ==
    PackH(transaction_id) \o PackH(protocol_id) \o PackH(length) \o <<unit_id>>

\* faulty variant of full_response: the server's own transaction_id field (0) is packed
full_response_ServerId(hdr, response_pdu) ==
    pack_header(0, 0, Len(response_pdu) + 1, hdr.unit_id) \o response_pdu

\* faulty variant of full_response: the length field does not count the unit id
full_response_PduLength(hdr, response_pdu) ==
    pack_header(hdr.transaction_id, 0, Len(response_pdu), hdr.unit_id) \o response_pdu

\* handle_client: full_response = response_header + response_pdu
full_response(hdr, response_pdu) ==
    pack_header(hdr.transaction_id, 0, Len(response_pdu) + 1, hdr.unit_id)
        \o response_pdu

NoCall == RtuCall(0, 0, 0, 0, 0, <<>>)
\* a handler answers without calling the RTU master
Answer(reply) == [forward |-> FALSE, reply |-> reply, call |-> NoCall]
\* a handler awaits an RTU operation
Forward(call) == [forward |-> TRUE, reply |-> <<>>, call |-> call]

\* function_code | 0x80
ExcCode(fc) == BitOr(fc, 128)

\* faulty variant of handle_read_request: a short PDU is answered with code 0x02
handle_read_request_Code2(fc, unit_id, pdu) ==
    IF Len(pdu) < 5 THEN [forward |-> FALSE, reply |-> <<fc + 128, 2>>, call |-> NoCall]
    ELSE Forward(RtuCall(fc, unit_id, UnpackH(Slice(pdu, 1, 3)),
                         UnpackH(Slice(pdu, 3, 5)), 0, <<>>))

\* _handle_read_holding_registers, _handle_read_input_registers, _handle_read_coils,
\* _handle_read_discrete_inputs up to the RTU call
handle_read_request(fc, unit_id, pdu) ==
    IF Len(pdu) < 5 THEN Answer(<<fc + 128, 3>>)
    ELSE Forward(RtuCall(fc, unit_id, UnpackH(Slice(pdu, 1, 3)),
                         UnpackH(Slice(pdu, 3, 5)), 0, <<>>))

\* _handle_write_single_register up to the RTU call
handle_write_single_register_request(unit_id, pdu) ==
    IF Len(pdu) < 5 THEN Answer(<<134, 3>>)
    ELSE Forward(RtuCall(6, unit_id, UnpackH(Slice(pdu, 1, 3)), 0,
                         UnpackH(Slice(pdu, 3, 5)), <<>>))

\* faulty variant of handle_write_single_coil_request: every non-zero value
\* field switches the coil on
handle_write_single_coil_request_NonZero(unit_id, pdu) ==
    IF Len(pdu) < 5 THEN [forward |-> FALSE, reply |-> <<133, 3>>, call |-> NoCall]
    ELSE [forward |-> TRUE, reply |-> <<>>,
          call |-> RtuCall(5, unit_id, UnpackH(Slice(pdu, 1, 3)), 0,
                           UnpackH(Slice(pdu, 3, 5)) /= 0, <<>>)]

\* _handle_write_single_coil up to the RTU call: value = coil_value == 0xFF00
handle_write_single_coil_request(unit_id, pdu) ==
    IF Len(pdu) < 5 THEN Answer(<<133, 3>>)
    ELSE Forward(RtuCall(5, unit_id, UnpackH(Slice(pdu, 1, 3)), 0,
                         UnpackH(Slice(pdu, 3, 5)) = 65280, <<>>))

\* the register values of a write-multiple-registers PDU
ExtractRegisters(pdu, byte_count) ==
    [k \in 1..((byte_count + 1) \div 2) |->
        UnpackH(Slice(pdu, 6 + 2 * (k - 1), 6 + 2 * (k - 1) + 2))]

\* _handle_write_multiple_registers up to the RTU call
handle_write_multiple_registers_request(unit_id, pdu) ==
    IF Len(pdu) < 6 THEN Answer(<<144, 3>>)
    ELSE LET start_addr == UnpackH(Slice(pdu, 1, 3))
             count == UnpackH(Slice(pdu, 3, 5))
             byte_count == pdu[6]
         IN  IF Len(pdu) < 6 + byte_count THEN Answer(<<144, 3>>)
             ELSE IF byte_count /= count * 2 THEN Answer(<<144, 3>>)
             ELSE Forward(RtuCall(16, unit_id, start_addr, 0, 0,
                                  ExtractRegisters(pdu, byte_count)))

\* _handle_write_multiple_coils up to the RTU call: the bits of the byte_count data
\* bytes, at most count of them
handle_write_multiple_coils_request(unit_id, pdu) ==
    IF Len(pdu) < 6 THEN Answer(<<143, 3>>)
    ELSE LET start_addr == UnpackH(Slice(pdu, 1, 3))
             count == UnpackH(Slice(pdu, 3, 5))
             byte_count == pdu[6]
         IN  IF Len(pdu) < 6 + byte_count THEN Answer(<<143, 3>>)
             ELSE Forward(RtuCall(15, unit_id, start_addr, 0, 0,
                                  UnpackBits(Slice(pdu, 6, 6 + byte_count), count)))

\* the function codes _process_modbus_request has a handler for
Supported == {1, 2, 3, 4, 5, 6, 15, 16}

\* faulty variant of process_request: an unknown function code is answered without
\* the 0x80 bit
process_request_PlainCode(unit_id, pdu) ==
    IF Len(pdu) < 1 THEN Answer(<<128, 1>>)
    ELSE LET function_code == pdu[1]
         IN  CASE function_code \in {1, 2, 3, 4} ->
                      handle_read_request(function_code, unit_id, pdu)
               [] function_code = 6 -> handle_write_single_register_request(unit_id, pdu)
               [] function_code = 16 -> handle_write_multiple_registers_request(unit_id, pdu)
               [] function_code = 5 -> handle_write_single_coil_request(unit_id, pdu)
               [] function_code = 15 -> handle_write_multiple_coils_request(unit_id, pdu)
               [] OTHER -> Answer(<<function_code, 1>>)

\* _process_modbus_request up to the RTU call
process_request(unit_id, pdu) ==
    IF Len(pdu) < 1 THEN Answer(<<128, 1>>)
    ELSE LET function_code == pdu[1]
         IN  CASE function_code \in {1, 2, 3, 4} ->
                      handle_read_request(function_code, unit_id, pdu)
               [] function_code = 6 -> handle_write_single_register_request(unit_id, pdu)
               [] function_code = 16 -> handle_write_multiple_registers_request(unit_id, pdu)
               [] function_code = 5 -> handle_write_single_coil_request(unit_id, pdu)
               [] function_code = 15 -> handle_write_multiple_coils_request(unit_id, pdu)
               [] OTHER -> Answer(<<ExcCode(function_code), 1>>)

RECURSIVE PackRegisters(_, _)
\* for reg in result: response += struct.pack(">H", reg)
PackRegisters(result, i) ==
    IF i > Len(result) THEN <<>>
    ELSE PackH(result[i]) \o PackRegisters(result, i + 1)

\* faulty variant of handle_read_registers_reply: the byte count is the number of
\* registers
handle_read_registers_reply_RegisterCount(fc, result) ==
    IF result.kind = "None" THEN <<fc + 128, 4>>
    ELSE IF result.kind = "error" THEN <<fc + 128, result.code>>
    ELSE <<fc, Len(result.vals)>> \o PackRegisters(result.vals, 1)

\* _handle_read_holding_registers, _handle_read_input_registers after the RTU call
handle_read_registers_reply(fc, result) ==
    IF result.kind = "None" THEN <<fc + 128, 4>>
    ELSE IF result.kind = "error" THEN <<fc + 128, result.code>>
    ELSE <<fc, Len(result.vals) * 2>> \o PackRegisters(result.vals, 1)

\* _handle_read_coils, _handle_read_discrete_inputs after the RTU call
handle_read_bits_reply(fc, result) ==
    IF result.kind = "None" THEN <<fc + 128, 4>>
    ELSE IF result.kind = "error" THEN <<fc + 128, result.code>>
    ELSE LET byte_count == (Len(result.vals) + 7) \div 8
         IN  <<fc, byte_count>> \o PackBytes(result.vals, byte_count)

\* _handle_write_single_register, _handle_write_single_coil after the RTU call
handle_write_single_reply(fc, pdu, result) ==
    IF result.kind = "None" THEN <<fc + 128, 4>>
    ELSE IF result.kind = "error" THEN <<fc + 128, result.code>>
    ELSE pdu

\* faulty variant of handle_write_multiple_reply: the byte count is echoed in
\* place of the item count
handle_write_multiple_reply_ByteCount(fc, pdu, result) ==
    IF result.kind = "None" THEN <<fc + 128, 4>>
    ELSE IF result.kind = "error" THEN <<fc + 128, result.code>>
    ELSE Slice(pdu, 0, 3) \o <<0, pdu[6]>>

\* _handle_write_multiple_registers, _handle_write_multiple_coils after the RTU call
handle_write_multiple_reply(fc, pdu, result) ==
    IF result.kind = "None" THEN <<fc + 128, 4>>
    ELSE IF result.kind = "error" THEN <<fc + 128, result.code>>
    ELSE Slice(pdu, 0, 5)

\* _process_modbus_request after the RTU call: the handler's reply, or the
\* except branch when the operation raised
process_reply(pdu, result) ==
    LET function_code == pdu[1]
    IN  IF result.kind = "raise" THEN <<ExcCode(function_code), 4>>
        ELSE CASE function_code \in {3, 4} ->
                      handle_read_registers_reply(function_code, result)
               [] function_code \in {1, 2} ->
                      handle_read_bits_reply(function_code, result)
               [] function_code \in {5, 6} ->
                      handle_write_single_reply(function_code, pdu, result)
               [] function_code \in {15, 16} ->
                      handle_write_multiple_reply(function_code, pdu, result)

(***************************************************************************)
(* The environment: the device on the RS-485 line and the TCP clients.     *)
(***************************************************************************)
\* the simulated device's holding/input registers, by address
DeviceRegister(addr) == <<10, 20, 30, 4660>>[(addr % 4) + 1]

\* the simulated device's coil/discrete-input bytes, by byte index
DeviceBits(i) == IF i = 1 THEN 205 ELSE 255

\* exception codes the device may report
DeviceExceptionCodes == {0, 2, 255}

\* the well-formed reply of the device to a complete request frame, CRC included
DeviceNormalReply(sent) ==
    LET Body(frame) ==
            LET unit == frame[1]
                fc == frame[2]
                addr == frame[3] * 256 + frame[4]
                n == frame[5] * 256 + frame[6]
            IN  CASE fc \in {3, 4} ->
                        <<unit, fc, 2 * n>>
                            \o PackRegisters([k \in 1..n |-> DeviceRegister(addr + k - 1)], 1)
                  [] fc \in {1, 2} ->
                        <<unit, fc, (n + 7) \div 8>>
                            \o [k \in 1..((n + 7) \div 8) |-> DeviceBits(k)]
                  [] OTHER -> Take(frame, 6)
    IN  CHOOSE r \in { body \o calculate_crc(body) :
                          body \in {Body(frame) : frame \in {sent}} } : TRUE

\* the device's exception reply
DeviceExceptionReply(sent, code) ==
    CHOOSE r \in { <<frame[1], frame[2] + 128, code>>
                      \o calculate_crc(<<frame[1], frame[2] + 128, code>>) :
                          frame \in {sent} } : TRUE

\* a frame with its last CRC byte damaged
Damaged(frame) ==
    [k \in 1..Len(frame) |->
        IF k = Len(frame) THEN (frame[k] + 1) % 256 ELSE frame[k]]

\* a CRC-valid reply to a read of coils or discrete inputs that carries one
\* data byte less than the request asks for
DeviceFewerBits(sent) ==
    IF sent[2] \notin {1, 2} THEN {}
    ELSE { body \o calculate_crc(body) :
             body \in { <<sent[1], sent[2], n - 1>> \o [k \in 1..(n - 1) |-> DeviceBits(k)] :
                        n \in {((sent[5] * 256 + sent[6]) + 7) \div 8} } }

\* the function code of the same reply layout that is not fc
OtherFunction(fc) ==
    CASE fc = 1 -> 2 [] fc = 2 -> 1 [] fc = 3 -> 4 [] fc = 4 -> 3
      [] fc = 5 -> 6 [] fc = 6 -> 5 [] fc = 15 -> 16 [] OTHER -> 15

\* CRC-valid replies that are not answers to the request: the well-formed
\* reply as another unit sends it, and as sent for another function
DeviceForeignReplies(sent) ==
    { body \o calculate_crc(body) :
        body \in UNION { { <<(r[1] % 247) + 1>> \o Slice(r, 1, Len(r) - 2),
                           <<r[1], OtherFunction(r[2])>> \o Slice(r, 2, Len(r) - 2) } :
                         r \in {DeviceNormalReply(sent)} } }

\* everything the line may deliver in answer to a request frame: nothing, the
\* well-formed reply, an exception reply, a reply with a bad CRC, a reply cut
\* short after 3 or after 4 bytes, a reply with fewer bits than asked for, a
\* reply of another unit or for another function
DeviceReplies(sent) ==
    {<<>>, DeviceNormalReply(sent), Damaged(DeviceNormalReply(sent)),
     Take(DeviceNormalReply(sent), 3), Take(DeviceNormalReply(sent), 4)}
        \cup {DeviceExceptionReply(sent, code) : code \in DeviceExceptionCodes}
        \cup DeviceFewerBits(sent)
        \cup DeviceForeignReplies(sent)

\* the bytes of a request ADU as a client writes them
ClientADU(transaction_id, protocol_id, unit_id, pdu) ==
    pack_header(transaction_id, protocol_id, Len(pdu) + 1, unit_id) \o pdu

\* request PDUs: well-formed ones for the eight function codes
ValidPDUs ==
    { <<3, 0, 0, 0, 3>>, <<4, 0, 3, 0, 1>>, <<1, 0, 0, 0, 10>>, <<2, 0, 0, 0, 3>>,
      <<5, 0, 1, 255, 0>>, <<5, 0, 1, 0, 1>>, <<6, 0, 1, 18, 52>>,
      <<15, 0, 0, 0, 10, 2, 205, 1>>, <<15, 0, 0, 0, 10, 2, 205, 255>>,
      <<16, 0, 1, 0, 2, 4, 0, 10, 1, 2>>,
      <<6, 0, 1, 0, 5, 9, 9>> }

\* request PDUs too short for their function
ShortPDUs ==
    { <<3, 0, 0>>, <<4>>, <<1, 0, 0, 0>>, <<2, 0>>, <<5, 0, 1, 255>>, <<6, 0>>,
      <<15, 0, 0, 0, 1>>, <<15, 0, 0, 0, 10, 2, 205>>,
      <<16, 0, 0, 0, 1>>, <<16, 0, 0, 0, 1, 2, 0>> }

\* multi-value writes whose byte count does not fit their item count
InconsistentPDUs ==
    { <<15, 0, 0, 0, 10, 1, 255>>, <<15, 0, 0, 0, 3, 2, 7, 0>>,
      <<16, 0, 0, 0, 2, 2, 0, 7>>, <<16, 0, 0, 0, 1, 4, 0, 7, 0, 8>> }

\* request PDUs with a function code the gateway has no handler for
UnsupportedPDUs == { <<7>>, <<43, 14, 1, 0>>, <<0>>, <<131, 2>>, <<255, 0, 0, 0, 1>> }

\* the requests of the client of the data-path specification
RichADUs ==
    { ClientADU(258, 0, 1, pdu) :
        pdu \in ValidPDUs \cup ShortPDUs \cup InconsistentPDUs \cup UnsupportedPDUs }
    \cup { ClientADU(65279, 0, 17, <<3, 0, 0, 0, 3>>),
           ClientADU(1, 1, 1, <<3, 0, 0, 0, 3>>),
           ClientADU(7, 256, 1, <<6, 0, 1, 18, 52>>),
           ClientADU(2, 0, 1, <<>>) }

\* the requests clients send ahead or concurrently
SmallADUs ==
    { ClientADU(513, 0, 1, <<3, 0, 0, 0, 1>>), ClientADU(514, 0, 2, <<6, 0, 1, 0, 5>>) }

\* the request of the clients of the concurrency specification
ConcADUs == { ClientADU(513, 0, 1, <<3, 0, 0, 0, 1>>) }

(***************************************************************************)
(* http_server.py: the configuration endpoint.  A text is a sequence of    *)
(* one-character strings; a file is a sequence of lines [key, value]; the  *)
(* file system maps the names of the files that exist to their contents.   *)
(***************************************************************************)
\* the value of a decimal digit, -1 for any other character
Digit(ch) ==
    CASE ch = "0" -> 0 [] ch = "1" -> 1 [] ch = "2" -> 2 [] ch = "3" -> 3
      [] ch = "4" -> 4 [] ch = "5" -> 5 [] ch = "6" -> 6 [] ch = "7" -> 7
      [] ch = "8" -> 8 [] ch = "9" -> 9 [] OTHER -> -1

RECURSIVE DigitsValue(_, _)
\* the number a run of digits denotes, acc the value of the digits before it
DigitsValue(s, acc) ==
    IF s = <<>> THEN acc ELSE DigitsValue(Tail(s), acc * 10 + Digit(Head(s)))

\* int(text): an optional sign and at least one digit, anything else raises
\* ValueError (ok = FALSE)
int(text) ==
    LET signed == text /= <<>> /\ Head(text) \in {"-", "+"}
        digits == IF signed THEN Tail(text) ELSE text
    IN  IF digits /= <<>> /\ \A i \in 1..Len(digits) : Digit(digits[i]) >= 0
        THEN [ok |-> TRUE,
              value |-> IF signed /\ Head(text) = "-"
                        THEN 0 - DigitsValue(digits, 0) ELSE DigitsValue(digits, 0)]
        ELSE [ok |-> FALSE, value |-> 0]

\* a query parameter that the request does not carry
NotGiven == <<"(not given)">>

\* int(params.get(key, default))
int_param(params, key, default) ==
    IF params[key] = NotGiven THEN [ok |-> TRUE, value |-> default]
    ELSE int(params[key])

\* the baud rates api_modbus_config accepts
Baudrates == {1200, 2400, 4800, 9600, 19200, 38400, 57600, 115200}

\* the name of the configuration file
ConfigFile == <<"config.py">>

\* api_modbus_config, the loop over the lines of config.py: the four settings
\* are rewritten, every other line is kept
updated_lines(lines, uart_id, baudrate, parity, stop_bits) ==
    [i \in 1..Len(lines) |->
        IF lines[i].key = "UART_ID" THEN [key |-> "UART_ID", value |-> uart_id]
        ELSE IF lines[i].key = "BAUDRATE" THEN [key |-> "BAUDRATE", value |-> baudrate]
        ELSE IF lines[i].key = "PARITY" THEN [key |-> "PARITY", value |-> parity]
        ELSE IF lines[i].key = "STOP_BITS" THEN [key |-> "STOP_BITS", value |-> stop_bits]
        ELSE lines[i]]

\* what an endpoint leaves behind: the HTTP status and JSON fields of its
\* response, whether it called machine.reset(), the file system, and the
\* last line it printed about the course of an update
Outcome(status, success, text, reset, fs, log) ==
    [status |-> status, success |-> success, text |-> text, reset |-> reset,
     fs |-> fs, log |-> log]



\* api_modbus_config, its four validations in order: the error of the first
\* that fails, "" when all pass
valid_config(uart_id, baudrate, parity, stop_bits) ==
    IF uart_id \notin {0, 1} THEN "UART ID must be 0 or 1"
    ELSE IF baudrate \notin Baudrates THEN "Invalid baudrate"
    ELSE IF parity \notin {0, 1, 2} THEN "Parity must be 0 (None), 1 (Odd), or 2 (Even)"
    ELSE IF stop_bits \notin {1, 2} THEN "Stop bits must be 1 or 2"
    ELSE ""

\* api_modbus_config with the file system fs; write is what happens when the
\* file is written: "ok", "open_fails" (open raises OSError) or "write_fails"
\* (f.write raises OSError after open has truncated the file)
api_modbus_config(params, fs, write) ==
    LET uart_id == int_param(params, "uart_id", 0)
        baudrate == int_param(params, "baudrate", 9600)
        parity == int_param(params, "parity", 0)
        stop_bits == int_param(params, "stop_bits", 1)
    IN  IF ~(uart_id.ok /\ baudrate.ok /\ parity.ok /\ stop_bits.ok)
        THEN Outcome(200, FALSE, "ModbusRTU config error", FALSE, fs, "")
        ELSE LET error == valid_config(uart_id.value, baudrate.value,
                                       parity.value, stop_bits.value)
             IN  IF error /= "" THEN Outcome(400, FALSE, error, FALSE, fs, "")
                 ELSE IF ConfigFile \notin DOMAIN fs
                 THEN Outcome(500, FALSE, "Could not read config file", FALSE, fs, "")
                 ELSE IF write = "open_fails"
                 THEN Outcome(500, FALSE, "Could not write config file", FALSE, fs, "")
                 ELSE IF write = "write_fails"
                 THEN Outcome(500, FALSE, "Could not write config file", FALSE,
                              [fs EXCEPT ![ConfigFile] = <<>>], "")
                 ELSE Outcome(200, TRUE, "restart_immediate", TRUE,
                              [fs EXCEPT ![ConfigFile] =
                                  updated_lines(fs[ConfigFile], uart_id.value,
                                                baudrate.value, parity.value,
                                                stop_bits.value)], "")

(***************************************************************************)
(* ota_updater.py and the OTA endpoint of http_server.py.  A file name is  *)
(* a sequence of pieces, each a string that is kept whole ("config.py",    *)
(* "/", ".", "tmp", ...), so that `part in name` is the occurrence of one  *)
(* sequence in another.  A version is a number: 0 stands for "0.0.0".      *)
(***************************************************************************)
\* self.files_to_exclude
files_to_exclude == { <<"config.py">>, <<"Makefile">>, <<"README.md">>, <<"LICENSE">> }

\* Python `part in path` on strings
Contains(path, part) ==
    \E i \in 0..(Len(path) - Len(part)) : Slice(path, i, i + Len(part)) = part

\* any(exclude in path for exclude in self.files_to_exclude)
excluded(path) == \E exclude \in files_to_exclude : Contains(path, exclude)

\* "/".join(member.name.split("/")[1:]): what follows the first "/"
relative_path(name) ==
    IF \E i \in 1..Len(name) : name[i] = "/"
    THEN Drop(name, CHOOSE i \in 1..Len(name) :
                        name[i] = "/" /\ \A j \in 1..(i - 1) : name[j] /= "/")
    ELSE <<>>

\* relative_path.startswith(".") or "/.git" in relative_path
hidden(path) == Head(path) = "." \/ Contains(path, <<"/", ".", "git">>)

\* f"{relative_path}.tmp"
temp_filename(path) == path \o <<".", "tmp">>

\* the file system with file name written / removed (removing a file that
\* does not exist changes nothing: the error is swallowed)
Put(fs, name, content) ==
    [n \in DOMAIN fs \cup {name} |-> IF n = name THEN content ELSE fs[n]]
Remove(fs, name) == [n \in DOMAIN fs \ {name} |-> fs[n]]

\* the content of every file of the release with the given tag
ReleaseContent(tag) == << [key |-> "release", value |-> tag] >>

\* faulty variant of skipped: excluded files are extracted like any other
skipped_NothingExcluded(member, path) ==
    member.isdir \/ path = <<>> \/ hidden(path)

\* download_and_extract_release: the members the loop passes over
skipped(member, path) ==
    member.isdir \/ path = <<>> \/ excluded(path) \/ hidden(path)

RECURSIVE extract_members(_, _, _, _, _, _)
\* download_and_extract_release, the loop over tar_ref.getmembers() from
\* member i on: each file is written to its temporary name and renamed; the
\* extraction of member fail_at raises, its temporary file is removed and the
\* result is False
extract_members(members, i, fs, extracted_files, tag, fail_at) ==
    IF i > Len(members)
    THEN [ok |-> TRUE, files |-> extracted_files, log |-> "Successfully extracted",
          fs |-> fs]
    ELSE LET path == relative_path(members[i].name)
         IN  IF skipped(members[i], path)
             THEN extract_members(members, i + 1, fs, extracted_files, tag, fail_at)
             ELSE IF fail_at = i
             THEN [ok |-> FALSE, files |-> <<>>, log |-> "Failed to extract",
                   fs |-> Remove(fs, temp_filename(path))]
             ELSE extract_members(members, i + 1,
                      Put(Remove(fs, temp_filename(path)), path, ReleaseContent(tag)),
                      extracted_files \o <<path>>, tag, fail_at)

\* download_and_extract_release: False when the download fails or the tar file
\* is empty, else the result of the loop
download_and_extract_release(release, fs, download_ok, fail_at) ==
    IF ~download_ok
    THEN [ok |-> FALSE, files |-> <<>>, log |-> "Failed to download release tarball",
          fs |-> fs]
    ELSE IF release.members = <<>>
    THEN [ok |-> FALSE, files |-> <<>>, log |-> "Empty tar file", fs |-> fs]
    ELSE extract_members(release.members, 1, fs, <<>>, release.tag, fail_at)

\* delete_obsolete_files: the files of the current directory that are not
\* excluded and not among repo_files are removed
delete_obsolete_files(repo_files, fs) ==
    LET local_files == { n \in DOMAIN fs : ~Contains(n, <<"/">>) /\ ~excluded(n) }
        files_to_delete ==
            { n \in local_files : \A k \in 1..Len(repo_files) : repo_files[k] /= n }
    IN  [n \in DOMAIN fs \ files_to_delete |-> fs[n]]

\* get_current_version: the content of the VERSION file, "0.0.0" without one
VersionFile == <<"VERSION">>
get_current_version(fs) ==
    IF VersionFile \in DOMAIN fs /\ fs[VersionFile] /= <<>>
    THEN fs[VersionFile][1].value ELSE 0

\* the answer of get_latest_release when the lookup fails
NoRelease == [tag |-> 0, members |-> <<>>]

\* check_for_updates: False (update = FALSE) when the lookup failed and when
\* the latest tag is the current version, else (True, release_info)
check_for_updates(fs, release) ==
    IF release = NoRelease
    THEN [update |-> FALSE, release |-> NoRelease, log |-> "Failed to get latest release"]
    ELSE IF get_current_version(fs) = release.tag
    THEN [update |-> FALSE, release |-> NoRelease, log |-> "Already up to date"]
    ELSE [update |-> TRUE, release |-> release, log |-> "Update available!"]

\* perform_update with the release its own lookup finds: check, download and
\* extract, delete the obsolete files; ok is its return value
perform_update(fs, release, download_ok, fail_at) ==
    LET update_result == check_for_updates(fs, release)
        got == download_and_extract_release(update_result.release, fs,
                                            download_ok, fail_at)
    IN  IF ~update_result.update
        THEN [ok |-> FALSE, fs |-> fs, log |-> update_result.log]
        ELSE IF ~got.ok THEN [ok |-> FALSE, fs |-> got.fs, log |-> got.log]
        ELSE IF got.files = <<>>
        THEN [ok |-> FALSE, fs |-> got.fs,
              log |-> "Failed to download and extract release"]
        ELSE [ok |-> TRUE, fs |-> delete_obsolete_files(got.files, got.fs),
              log |-> "Update successful!"]

\* str.lower() of one character
lower(ch) ==
    CASE ch = "T" -> "t" [] ch = "R" -> "r" [] ch = "U" -> "u" [] ch = "E" -> "e"
      [] ch = "Y" -> "y" [] ch = "S" -> "s" [] OTHER -> ch

\* params.get("force", "false").lower() in ["true", "1", "yes"]
force_update(text) ==
    /\ text /= NotGiven
    /\ [i \in 1..Len(text) |-> lower(text[i])]
          \in { <<"t", "r", "u", "e">>, <<"1">>, <<"y", "e", "s">> }

\* the outcome of api_ota_update after perform_update
update_outcome(done) ==
    IF done.ok THEN Outcome(200, TRUE, "restart_pending", TRUE, done.fs, done.log)
    ELSE Outcome(200, FALSE, "OTA update failed. Check logs for details.", FALSE,
                 done.fs, done.log)

\* api_ota_update: first is what the endpoint's own lookup finds, second what
\* the lookup of perform_update finds
api_ota_update(force, first, second, fs, download_ok, fail_at) ==
    IF force_update(force)
    THEN update_outcome(perform_update(fs, second, download_ok, fail_at))
    ELSE LET update_available == check_for_updates(fs, first)
         IN  IF ~update_available.update
             THEN Outcome(200, FALSE,
                          "Failed to check for updates. Check logs for details.",
                          FALSE, fs, update_available.log)
             ELSE update_outcome(perform_update(fs, second, download_ok, fail_at))

(***************************************************************************)
(* State.                                                                  *)
(***************************************************************************)
VARIABLES
    conn,     \* per TCP connection: the handler task, its socket and its client
    lock,     \* ModbusRTU.lock: who holds it
    wire,     \* the last complete frame written to the UART
    uart_rx,  \* bytes received by the UART and not yet read
    hw,       \* RUNNING_ON_HARDWARE
    http,     \* per HTTP connection: the handler task of http_server.py
    reqs,     \* history: the requests the clients have made so far
    device    \* the device's files, and the last call of a maintenance endpoint

vars == <<conn, lock, wire, uart_rx, hw, http, reqs, device>>

Conns == 1..NumConns

\* HTTP connections that may be opened
Https == {1}

NoHolder == [kind |-> "none", id |-> 0]
TcpCaller(c) == [kind |-> "tcp", id |-> c]
HttpCaller(h) == [kind |-> "http", id |-> h]

NoHeader == [transaction_id |-> 0, protocol_id |-> 0, length |-> 0, unit_id |-> 0]

\* a connection nobody has opened yet.  pc is the handler's position; data the
\* bytes _read_exact has collected; hdr, pdu, call, result, resp the handler's
\* locals (resp is what _send_all still has to send); asleep whether the task is
\* in the asyncio.sleep(0.01) of _read_exact or _send_all; inbuf the bytes the
\* client has sent and the handler has not received; peer the client's end:
\* "open", "closed" (recv returns b"" once inbuf is read) or "reset" (recv and
\* send raise OSError); sock the gateway's end of the socket: "none" before
\* accept, "open", or "closed".  History: req is the header most recently read; out the
\* bytes written, bus the frames put on the line and reply the bytes the line
\* delivered since that header was read; others the connections that were
\* being served when this one was accepted.
NewConn ==
    [pc |-> "Unconnected", data |-> <<>>, hdr |-> NoHeader, pdu |-> <<>>,
     call |-> NoCall, result |-> ResNone, resp |-> <<>>, asleep |-> FALSE,
     inbuf |-> <<>>, peer |-> "open", sock |-> "none",
     req |-> <<>>, out |-> <<>>, bus |-> 0, reply |-> <<>>, others |-> 0]

\* an HTTP connection nobody has opened yet: pc is the handler's position, call
\* the RTU operation its API endpoint calls, response the JSON object it
\* answers; reply (history) the bytes the line delivered to the operation
NoResponse == [success |-> FALSE, error |-> "", code |-> 0]
NewHttp == [pc |-> "Idle", call |-> NoCall, response |-> NoResponse, reply |-> <<>>]

\* config.py as shipped: the four serial settings and a line that is none of them
DefaultConfig ==
    << [key |-> "UART_ID", value |-> 0], [key |-> "BAUDRATE", value |-> 9600],
       [key |-> "PARITY", value |-> 0], [key |-> "STOP_BITS", value |-> 1],
       [key |-> "TCP_PORT", value |-> 502] >>

\* the parameters of a request that carries none
ParamKeys == {"uart_id", "baudrate", "parity", "stop_bits"}
NoParams == [key \in ParamKeys |-> NotGiven]

\* the device before any maintenance endpoint has been called: fs its files,
\* out the response of the last call, whether it called machine.reset() and
\* its last log line; req (history) the last call: its endpoint, the
\* parameters of a configuration request, and for an update the force
\* parameter and the tag the endpoint's own lookup found (0: lookup failed)
NoOutcome == [status |-> 0, success |-> FALSE, text |-> "", reset |-> FALSE, log |-> ""]
NoCheck == [force |-> NotGiven, latest |-> 0]
NewDevice(fs) ==
    [fs |-> fs, out |-> NoOutcome,
     req |-> [endpoint |-> "", params |-> NoParams, check |-> NoCheck]]

\* the gateway after construction
InitGateway ==
    /\ conn = [c \in Conns |-> NewConn]
    /\ lock = NoHolder
    /\ wire = <<>>
    /\ uart_rx = <<>>
    /\ http = [h \in Https |-> NewHttp]
    /\ reqs = 0

Init ==
    /\ InitGateway
    /\ hw \in BOOLEAN
    /\ device = NewDevice([name \in {ConfigFile} |-> DefaultConfig])

\* connections accepted whose handler has not terminated
Active == {c \in Conns : conn[c].pc \notin {"Unconnected", "Closed"}}

(***************************************************************************)
(* modbus_tcp_server.py: the listener and the connection handler.          *)
(***************************************************************************)
\* start: accept a connection and create its handler task
Accept(c) ==
    /\ conn[c].pc = "Unconnected"
    /\ conn' = [conn EXCEPT ![c].pc = "AwaitHeader", ![c].sock = "open",
                            ![c].others = Cardinality(Active)]
    /\ UNCHANGED <<device, lock, wire, uart_rx, hw, http, reqs>>

\* a client that waits for each response writes its next request
ClientRequest(c, adu) ==
    /\ conn[c].pc = "AwaitHeader"
    /\ conn[c].peer = "open"
    /\ conn[c].inbuf = <<>> /\ conn[c].data = <<>>
    /\ reqs < MaxReqs
    /\ conn' = [conn EXCEPT ![c].inbuf = adu]
    /\ reqs' = reqs + 1
    /\ UNCHANGED <<device, lock, wire, uart_rx, hw, http>>

\* a client writes its next request while the previous one is being served
ClientPipeline(c, adu) ==
    /\ conn[c].pc \in {"AwaitBody", "Dispatch", "WaitBus", "OnBus", "SendResponse"}
    /\ conn[c].peer = "open"
    /\ conn[c].inbuf = <<>>
    /\ reqs < MaxReqs
    /\ conn' = [conn EXCEPT ![c].inbuf = adu]
    /\ reqs' = reqs + 1
    /\ UNCHANGED <<device, lock, wire, uart_rx, hw, http>>

\* the client closes its end of the connection
ClientClose(c) ==
    /\ conn[c].pc \notin {"Unconnected", "Closed"}
    /\ conn[c].peer = "open"
    /\ conn' = [conn EXCEPT ![c].peer = "closed"]
    /\ UNCHANGED <<device, lock, wire, uart_rx, hw, http, reqs>>

\* the connection is reset: what the client had sent is dropped, and from now
\* on recv and send on the socket raise OSError
ClientReset(c) ==
    /\ conn[c].pc \notin {"Unconnected", "Closed"}
    /\ conn[c].peer = "open"
    /\ conn' = [conn EXCEPT ![c].peer = "reset", ![c].inbuf = <<>>]
    /\ UNCHANGED <<device, lock, wire, uart_rx, hw, http, reqs>>

\* faulty variant of Closed: the loop is left without the finally clause, the
\* task ends and the socket stays open
Closed_SocketLeftOpen(k) == [k EXCEPT !.pc = "Closed", !.data = <<>>, !.resp = <<>>]

\* handle_client's finally: the socket is closed and the task ends
Closed(k) ==
    [k EXCEPT !.pc = "Closed", !.data = <<>>, !.resp = <<>>, !.sock = "closed"]

\* faulty variant of handler_exit: the exception leaves the task and ends the
\* event loop, and with it every handler
handler_exit_EndsAll(cs, c) ==
    [d \in DOMAIN cs |->
        IF cs[d].pc = "Unconnected" THEN cs[d] ELSE Closed(cs[d])]

\* handle_client: break or an exception ends the loop of this handler only;
\* the other tasks go on
handler_exit(cs, c) == [cs EXCEPT ![c] = Closed(cs[c])]

\* faulty variant of after_header: the protocol id is not checked
after_header_NoProtocolCheck(k, header) ==
    LET hdr == unpack_header(header)
        got == [k EXCEPT !.hdr = hdr, !.data = <<>>, !.pdu = <<>>, !.req = header,
                         !.out = <<>>, !.bus = 0, !.reply = <<>>,
                         !.call = NoCall, !.result = ResNone]
    IN  IF hdr.length - 1 <= 0 THEN Closed(got)
        ELSE [got EXCEPT !.pc = "AwaitBody"]

\* handle_client after the header has been read: check the protocol id, then
\* _read_exact(length - 1), which returns b"" at once when length - 1 <= 0
after_header(k, header) ==
    LET hdr == unpack_header(header)
        got == [k EXCEPT !.hdr = hdr, !.data = <<>>, !.pdu = <<>>, !.req = header,
                         !.out = <<>>, !.bus = 0, !.reply = <<>>,
                         !.call = NoCall, !.result = ResNone]
    IN  IF hdr.protocol_id /= 0 THEN Closed(got)
        ELSE IF hdr.length - 1 <= 0 THEN Closed(got)
        ELSE [got EXCEPT !.pc = "AwaitBody"]

\* one recv of _read_exact(sock, 7): the peer has closed (b"" -> None -> break),
\* or a chunk arrives; with the 7th byte the header is parsed
RecvHeader(c) ==
    /\ conn[c].pc = "AwaitHeader" /\ ~conn[c].asleep
    /\ LET k == conn[c]
           chunk == Take(k.inbuf, 7 - Len(k.data))
           data == k.data \o chunk
           rest == Drop(k.inbuf, Len(chunk))
       IN  IF k.inbuf = <<>>
           THEN /\ k.peer = "closed"
                /\ conn' = handler_exit(conn, c)
           ELSE IF Len(data) < 7
           THEN conn' = [conn EXCEPT ![c].data = data, ![c].inbuf = rest]
           ELSE conn' = [conn EXCEPT ![c] = after_header([k EXCEPT !.inbuf = rest], data)]
    /\ UNCHANGED <<device, lock, wire, uart_rx, hw, http, reqs>>

\* one recv of _read_exact(sock, length - 1); with the last byte the PDU is complete
RecvBody(c) ==
    /\ conn[c].pc = "AwaitBody" /\ ~conn[c].asleep
    /\ LET k == conn[c]
           chunk == Take(k.inbuf, (k.hdr.length - 1) - Len(k.data))
           data == k.data \o chunk
           rest == Drop(k.inbuf, Len(chunk))
       IN  IF k.inbuf = <<>>
           THEN /\ k.peer = "closed"
                /\ conn' = handler_exit(conn, c)
           ELSE IF Len(data) < k.hdr.length - 1
           THEN conn' = [conn EXCEPT ![c].data = data, ![c].inbuf = rest]
           ELSE conn' = [conn EXCEPT ![c].data = <<>>, ![c].inbuf = rest,
                                     ![c].pdu = data, ![c].pc = "Dispatch"]
    /\ UNCHANGED <<device, lock, wire, uart_rx, hw, http, reqs>>

\* one recv of _read_exact that raises OSError, because nothing has arrived on
\* the non-blocking socket or because the connection is reset: the exception
\* is swallowed and the task sleeps
RecvAgain(c) ==
    /\ conn[c].pc \in {"AwaitHeader", "AwaitBody"} /\ ~conn[c].asleep
    /\ \/ conn[c].inbuf = <<>> /\ conn[c].peer = "open"
       \/ conn[c].peer = "reset"
    /\ conn' = [conn EXCEPT ![c].asleep = TRUE]
    /\ UNCHANGED <<device, lock, wire, uart_rx, hw, http, reqs>>

\* await asyncio.sleep(0.01) of _read_exact or _send_all returns: the loop goes
\* round again
Wake(c) ==
    /\ conn[c].asleep
    /\ conn' = [conn EXCEPT ![c].asleep = FALSE]
    /\ UNCHANGED <<device, lock, wire, uart_rx, hw, http, reqs>>

\* _process_modbus_request up to the RTU call: answer at once, or wait for the lock
Dispatch(c) ==
    /\ conn[c].pc = "Dispatch"
    /\ LET k == conn[c]
           d == process_request(k.hdr.unit_id, k.pdu)
       IN  IF d.forward
           THEN conn' = [conn EXCEPT ![c].call = d.call, ![c].pc = "WaitBus"]
           ELSE conn' = [conn EXCEPT ![c].resp = full_response(k.hdr, d.reply),
                                     ![c].pc = "SendResponse"]
    /\ UNCHANGED <<device, lock, wire, uart_rx, hw, http, reqs>>

(***************************************************************************)
(* modbus_rtu.py: one transaction under the lock.                          *)
(***************************************************************************)
\* faulty variant of LockFree: the operation does not wait for the lock
LockFree_NoWait == TRUE

\* async with self.lock: the lock can be taken
LockFree == lock = NoHolder

\* faulty variant of lock_after: an operation that times out keeps the lock
\* while its handler writes the response
lock_after_HeldOnTimeout(caller, result) ==
    IF result.kind \in {"None", "False"} THEN caller ELSE NoHolder

\* faulty variant of lock_after: an operation that raises keeps the lock
lock_after_HeldOnRaise(caller, result) ==
    IF result.kind = "raise" THEN caller ELSE NoHolder

\* async with self.lock: leaving the block releases the lock, whatever the
\* operation returns or raises
lock_after(caller, result) == NoHolder

\* an RTU operation called by a TCP handler: take the lock, build the frame and
\* send it
BusSend(c) ==
    /\ conn[c].pc = "WaitBus"
    /\ LockFree
    /\ lock' = TcpCaller(c)
    /\ wire' = send_request(BuildFrame(conn[c].call))
    /\ conn' = [conn EXCEPT ![c].pc = "OnBus", ![c].bus = @ + 1]
    /\ UNCHANGED <<device, uart_rx, hw, http, reqs>>

\* faulty variant of after_receive: an operation that got no reply is started
\* again
after_receive_Retry(result) ==
    IF result.kind \in {"None", "False"} THEN "WaitBus" ELSE "SendResponse"

\* the operation returns after its one _send_request and _receive_response,
\* whatever the result, and the handler goes on to build and write its response
after_receive(result) == "SendResponse"

\* faulty variant of BusReceive: when the client is gone the operation is
\* abandoned after its send, the lock is released and the handler ends
BusReceive_Abandoned(c, reply) ==
    /\ conn[c].pc = "OnBus"
    /\ IF conn[c].peer /= "open"
       THEN /\ conn' = handler_exit(conn, c)
            /\ lock' = NoHolder
            /\ UNCHANGED uart_rx
       ELSE \E got \in {receive_response(hw, uart_rx \o reply)} :
            \E result \in {rtu_result(conn[c].call, got)} :
               /\ uart_rx' = got.rest
               /\ conn' = [conn EXCEPT
                     ![c].result = result, ![c].reply = reply,
                     ![c].resp = full_response(conn[c].hdr,
                                               process_reply(conn[c].pdu, result)),
                     ![c].pc = after_receive(result)]
               /\ lock' = lock_after(TcpCaller(c), result)
    /\ UNCHANGED <<device, wire, hw, http, reqs>>

\* the rest of the operation, with reply what the line delivers: receive,
\* check, decode, release the lock; the handler then builds its response
BusReceive(c, reply) ==
    /\ conn[c].pc = "OnBus"
    /\ \E got \in {receive_response(hw, uart_rx \o reply)} :
       \E result \in {rtu_result(conn[c].call, got)} :
          /\ uart_rx' = got.rest
          /\ conn' = [conn EXCEPT
                ![c].result = result, ![c].reply = reply,
                ![c].resp = full_response(conn[c].hdr,
                                          process_reply(conn[c].pdu, result)),
                ![c].pc = after_receive(result)]
          /\ lock' = lock_after(TcpCaller(c), result)
    /\ UNCHANGED <<device, wire, hw, http, reqs>>

(***************************************************************************)
(* modbus_tcp_server.py: _send_all.                                        *)
(***************************************************************************)
\* sock.send takes all that is left, or only the first 7 bytes of it
SendSizes(resp) == {Len(resp)} \cup (IF Len(resp) > 7 THEN {7} ELSE {})

\* faulty variant of after_send: the handler goes on to the next header after
\* the first send
after_send_OneSend(left) == "AwaitHeader"

\* _send_all: while total_sent < len(data) the handler goes on sending; then
\* handle_client loops to the next header
after_send(left) == IF left = <<>> THEN "AwaitHeader" ELSE "SendResponse"

\* one send of _send_all that takes n > 0 bytes
SendSome(c, n) ==
    /\ conn[c].pc = "SendResponse" /\ ~conn[c].asleep
    /\ conn[c].peer /= "reset"
    /\ LET k == conn[c]
           left == Drop(k.resp, n)
       IN  conn' = [conn EXCEPT ![c].out = @ \o Take(k.resp, n),
                                ![c].resp = left,
                                ![c].pc = after_send(left)]
    /\ UNCHANGED <<device, lock, wire, uart_rx, hw, http, reqs>>

\* one send of _send_all that raises OSError: the exception is swallowed and
\* the task sleeps
SendError(c) ==
    /\ conn[c].pc = "SendResponse" /\ ~conn[c].asleep
    /\ conn[c].peer = "reset"
    /\ conn' = [conn EXCEPT ![c].asleep = TRUE]
    /\ UNCHANGED <<device, lock, wire, uart_rx, hw, http, reqs>>

\* one send of _send_all that reports 0 bytes: RuntimeError, the handler ends
SendZero(c) ==
    /\ conn[c].pc = "SendResponse" /\ ~conn[c].asleep
    /\ conn[c].peer /= "reset"
    /\ conn' = handler_exit(conn, c)
    /\ UNCHANGED <<device, lock, wire, uart_rx, hw, http, reqs>>

(***************************************************************************)
(* http_server.py: an API endpoint that calls the RTU master.              *)
(***************************************************************************)
\* api_read_*, api_write_*: the JSON object for the operation's result; a raise
\* is caught by handle_api, which answers api_error
api_response(result) ==
    IF result.kind = "raise"
    THEN [success |-> FALSE, error |-> "API Error", code |-> 0]
    ELSE IF result.kind = "None"
    THEN [success |-> FALSE, error |-> "Communication timeout", code |-> 0]
    ELSE IF result.kind = "error"
    THEN [success |-> FALSE, error |-> "Modbus error", code |-> result.code]
    ELSE [success |-> TRUE, error |-> "", code |-> 0]

\* the RTU operations the API clients of the model ask for
HttpCalls == {RtuCall(3, 1, 0, 1, 0, <<>>), RtuCall(6, 1, 1, 0, 5, <<>>)}

\* calls of the eight API endpoints: /api/read_holding, read_input, read_coils,
\* read_discrete, write_single, write_multiple, write_coil, write_coils
ApiCalls ==
    { RtuCall(3, 1, 0, 2, 0, <<>>), RtuCall(4, 2, 3, 1, 0, <<>>),
      RtuCall(1, 1, 0, 10, 0, <<>>), RtuCall(2, 1, 0, 3, 0, <<>>),
      RtuCall(6, 1, 1, 0, 4660, <<>>), RtuCall(16, 1, 1, 0, 0, <<10, 258>>),
      RtuCall(5, 1, 1, 0, TRUE, <<>>), RtuCall(15, 1, 0, 0, 0, <<TRUE, FALSE, TRUE>>),
      RtuCall(5, 17, 2, 0, FALSE, <<>>), RtuCall(6, 17, 0, 0, 0, <<>>),
      RtuCall(16, 17, 0, 0, 0, <<65535>>),
      RtuCall(15, 17, 8, 0, 0, <<TRUE, TRUE, TRUE, TRUE, TRUE, TRUE, TRUE, TRUE, TRUE>>) }

\* handle_client, handle_api, api_*: a request arrives, is parsed and routed;
\* the endpoint calls its RTU operation
HttpRequest(h, call) ==
    /\ http[h].pc = "Idle"
    /\ reqs < MaxReqs
    /\ http' = [http EXCEPT ![h].pc = "WaitBus", ![h].call = call]
    /\ reqs' = reqs + 1
    /\ UNCHANGED <<device, conn, lock, wire, uart_rx, hw>>

\* the RTU operation called by an API endpoint: take the lock, build, send
HttpBusSend(h) ==
    /\ http[h].pc = "WaitBus"
    /\ LockFree
    /\ lock' = HttpCaller(h)
    /\ wire' = send_request(BuildFrame(http[h].call))
    /\ http' = [http EXCEPT ![h].pc = "OnBus"]
    /\ UNCHANGED <<device, conn, uart_rx, hw, reqs>>

\* the rest of the operation; the endpoint answers and the socket is closed
HttpBusReceive(h, reply) ==
    /\ http[h].pc = "OnBus"
    /\ \E got \in {receive_response(hw, uart_rx \o reply)} :
       \E result \in {rtu_result(http[h].call, got)} :
          /\ uart_rx' = got.rest
          /\ http' = [http EXCEPT ![h].pc = "Done", ![h].reply = reply,
                                  ![h].response = api_response(result)]
          /\ lock' = lock_after(HttpCaller(h), result)
    /\ UNCHANGED <<device, conn, wire, hw, reqs>>

(***************************************************************************)
(* Specifications.                                                         *)
(***************************************************************************)
\* the frame the operation of TCP connection c has put on the line
SentBy(c) == send_request(BuildFrame(conn[c].call))

\* what the line may deliver to the operation of connection c
LineReplies(c) ==
    IF conn[c].pc /= "OnBus" THEN {}
    ELSE IF hw THEN DeviceReplies(SentBy(c))
    ELSE {<<>>}

\* the same, when only silence and the well-formed reply are considered
PlainReplies(c) ==
    IF conn[c].pc /= "OnBus" THEN {}
    ELSE {<<>>, DeviceNormalReply(SentBy(c))}

\* what the line may deliver to the operation of HTTP handler h
HttpReplies(h) ==
    IF http[h].pc /= "OnBus" THEN {}
    ELSE {<<>>, DeviceNormalReply(send_request(BuildFrame(http[h].call)))}

\* the steps of the handler of connection c other than the end of its RTU
\* operation
Handler(c) ==
    \/ RecvHeader(c)
    \/ RecvBody(c)
    \/ Dispatch(c)
    \/ BusSend(c)

\* the data path: one connection, every kind of request, every kind of reply
DataConns == {1}

Next ==
    \E c \in DataConns :
        \/ Accept(c)
        \/ \E adu \in RichADUs : ClientRequest(c, adu)
        \/ \E adu \in SmallADUs : ClientPipeline(c, adu)
        \/ ClientClose(c)
        \/ Handler(c)
        \/ \E reply \in LineReplies(c) : BusReceive(c, reply)
        \/ \E n \in SendSizes(conn[c].resp) : SendSome(c, n)
        \/ SendZero(c)

Spec == Init /\ [][Next]_vars

\* concurrency: several TCP connections and an API client sharing the one
\* ModbusRTU, on hardware; the clients close only between requests and every
\* send takes the whole response
InitConc == Init /\ hw

NextConc ==
    \/ \E c \in Conns :
          \/ Accept(c)
          \/ \E adu \in ConcADUs : ClientRequest(c, adu)
          \/ conn[c].inbuf = <<>> /\ conn[c].pc = "AwaitHeader" /\ ClientClose(c)
          \/ Handler(c)
          \/ \E reply \in PlainReplies(c) : BusReceive(c, reply)
          \/ SendSome(c, Len(conn[c].resp))
    \/ \E h \in Https :
          \/ \E call \in HttpCalls : HttpRequest(h, call)
          \/ HttpBusSend(h)
          \/ \E reply \in HttpReplies(h) : HttpBusReceive(h, reply)

SpecConc == InitConc /\ [][NextConc]_vars

\* what the clients of the liveness specification write: a complete read
\* request, a request with protocol id 1, the first three bytes of a header, a
\* header and two of the five bytes it announces
LiveADUs ==
    { ClientADU(513, 0, 1, <<3, 0, 0, 0, 1>>),
      ClientADU(1, 1, 1, <<3, 0, 0, 0, 3>>),
      Take(ClientADU(513, 0, 1, <<3, 0, 0, 0, 1>>), 3),
      Take(ClientADU(513, 0, 1, <<3, 0, 0, 0, 1>>), 9) }

\* what the line may deliver there: silence, the well-formed reply, a reply cut
\* after four bytes, an exception reply
LiveReplies(c) ==
    IF conn[c].pc /= "OnBus" THEN {}
    ELSE UNION { UNION { {<<>>, r, Take(r, 4), DeviceExceptionReply(sent, 2)} :
                         r \in {DeviceNormalReply(sent)} } :
                 sent \in {SentBy(c)} }

\* every step the handler task of connection c can take
HandlerLive(c) ==
    \/ Handler(c)
    \/ RecvAgain(c)
    \/ Wake(c)
    \/ \E reply \in LiveReplies(c) : BusReceive(c, reply)
    \/ SendSome(c, Len(conn[c].resp))
    \/ SendZero(c)
    \/ SendError(c)

\* the connections of the liveness specification: the client of the first may
\* send anything, stall, close or reset at any time; the client of the second
\* sends complete valid requests and keeps its connection open
FaultyConns == {1}
SoundConns == {2}
LiveConns == FaultyConns \cup SoundConns

\* progress: two connections on hardware, one of them with a misbehaving client
NextLive ==
    \/ \E c \in LiveConns : Accept(c) \/ HandlerLive(c)
    \/ \E c \in FaultyConns :
          \/ \E adu \in LiveADUs : ClientRequest(c, adu)
          \/ ClientClose(c)
          \/ ClientReset(c)
    \/ \E c \in SoundConns : \E adu \in ConcADUs : ClientRequest(c, adu)

\* uasyncio runs every task that is ready, so a handler that can take a step
\* takes one; asyncio.Lock wakes its waiters in turn, so a handler that finds
\* the lock free again and again gets it
FairLive ==
    \A c \in LiveConns : WF_vars(HandlerLive(c)) /\ SF_vars(BusSend(c))

SpecLive == InitConc /\ [][NextLive]_vars /\ FairLive

\* what the line may deliver to the operation of HTTP handler h in the API
\* specification
ApiReplies(h) ==
    IF http[h].pc /= "OnBus" THEN {}
    ELSE IF hw THEN DeviceReplies(send_request(BuildFrame(http[h].call)))
    ELSE {<<>>}

\* the HTTP API on its own: one call of any endpoint, every kind of reply, on
\* and off hardware
NextApi ==
    \E h \in Https :
        \/ \E call \in ApiCalls : HttpRequest(h, call)
        \/ HttpBusSend(h)
        \/ \E reply \in ApiReplies(h) : HttpBusReceive(h, reply)

SpecApi == Init /\ [][NextApi]_vars

\* api_modbus_config as one step: the response, the reset and the file written
ApiModbusConfig(params, write) ==
    /\ \E o \in {api_modbus_config(params, device.fs, write)} :
          device' = [fs |-> o.fs,
                     req |-> [endpoint |-> "modbus_config", params |-> params,
                              check |-> NoCheck],
                     out |-> [status |-> o.status, success |-> o.success,
                              text |-> o.text, reset |-> o.reset, log |-> o.log]]
    /\ UNCHANGED <<conn, lock, wire, uart_rx, hw, http, reqs>>

\* the query parameters the clients of the configuration endpoint send: left
\* out, inside and outside the accepted set, with a sign, not a number, empty
ConfigParams ==
    { [uart_id |-> u, baudrate |-> b, parity |-> p, stop_bits |-> s] :
        u \in {NotGiven, <<"1">>, <<"2">>, <<"x">>},
        b \in {NotGiven, <<"1", "9", "2", "0", "0">>, <<"9", "6", "0", "1">>, <<>>},
        p \in {NotGiven, <<"3">>},
        s \in {<<"2">>, <<"0">>, <<"+", "1">>} }

\* the files the device may hold when the endpoint is called: config.py as
\* shipped, config.py without its BAUDRATE line, no config.py
ConfigFileSystems ==
    { [name \in {ConfigFile} |-> DefaultConfig],
      [name \in {ConfigFile} |-> <<DefaultConfig[1], DefaultConfig[3], DefaultConfig[4]>>],
      [name \in {} |-> <<>>] }

InitConfig ==
    /\ InitGateway
    /\ hw = TRUE
    /\ device \in { NewDevice(fs) : fs \in ConfigFileSystems }

\* the configuration endpoint on its own: any request, any outcome of the write
NextConfig ==
    \E params \in ConfigParams, write \in {"ok", "open_fails", "write_fails"} :
        ApiModbusConfig(params, write)

SpecConfig == InitConfig /\ [][NextConfig]_vars

\* api_ota_update as one step, with latest the tag the endpoint's own lookup
\* finds (0: the lookup fails) and second what the lookup of perform_update finds
ApiOtaUpdate(force, latest, second, download_ok, fail_at) ==
    /\ \E first \in {IF latest = 0 THEN NoRelease
                     ELSE [tag |-> latest, members |-> second.members]} :
       \E o \in {api_ota_update(force, first, second, device.fs, download_ok, fail_at)} :
          device' = [fs |-> o.fs,
                     req |-> [endpoint |-> "ota_update", params |-> NoParams,
                              check |-> [force |-> force, latest |-> latest]],
                     out |-> [status |-> o.status, success |-> o.success,
                              text |-> o.text, reset |-> o.reset, log |-> o.log]]
    /\ UNCHANGED <<conn, lock, wire, uart_rx, hw, http, reqs>>

\* a file of a release tarball, under the root directory GitHub adds
TarFile(name) == [isdir |-> FALSE, name |-> <<"repo", "/">> \o name]

\* the tarballs of the releases: files to install next to excluded ones and a
\* directory entry; a release without main.py that has a hidden file; a
\* release of excluded files only, one of them outside the root directory;
\* an empty tar file
Tarballs ==
    { << [isdir |-> TRUE, name |-> <<"repo", "/">>], TarFile(<<"main.py">>),
         TarFile(<<"config.py">>), TarFile(VersionFile), TarFile(<<"README.md">>) >>,
      << TarFile(VersionFile), TarFile(<<".", "git", "ignore">>), TarFile(<<"new.py">>) >>,
      << TarFile(<<"config.py">>), [isdir |-> FALSE, name |-> <<"config.py">>],
         TarFile(<<"docs", "/", "README.md">>) >>,
      << >> }

\* the tags of the releases
Tags == {1, 2}

\* what get_latest_release may find
Releases == {NoRelease} \cup { [tag |-> t, members |-> m] : t \in Tags, m \in Tarballs }

\* the files the device may hold before an update: config.py, README.md,
\* main.py and VERSION of release 1, and any of an obsolete module and a
\* temporary file left by an interrupted update
OtaFileSystems ==
    { [name \in {ConfigFile, <<"README.md">>, <<"main.py">>, VersionFile} \cup more |->
          IF name = ConfigFile THEN DefaultConfig
          ELSE IF name = <<"main.py", ".", "tmp">> THEN <<>>
          ELSE ReleaseContent(1)] :
        more \in SUBSET { <<"old.py">>, <<"main.py", ".", "tmp">> } }

InitOta ==
    /\ InitGateway
    /\ hw = TRUE
    /\ device \in { NewDevice(fs) : fs \in OtaFileSystems }

\* the OTA endpoint on its own: any force parameter, any outcome of the two
\* lookups and of the download, any member whose extraction fails
NextOta ==
    \E force \in {NotGiven, <<"t", "r", "u", "e">>, <<"Y", "E", "S">>},
       latest \in {0} \cup Tags, second \in Releases,
       download_ok \in BOOLEAN, fail_at \in 0..4 :
        ApiOtaUpdate(force, latest, second, download_ok, fail_at)

SpecOta == InitOta /\ [][NextOta]_vars

\* the byte values the CRC is exercised with
CrcBytes == {0, 1, 128, 255}

RECURSIVE SeqsUpTo(_, _)
\* the sequences over S of length at most n
SeqsUpTo(S, n) ==
    IF n = 0 THEN {<<>>}
    ELSE LET shorter == SeqsUpTo(S, n - 1)
         IN  shorter \cup {<<x>> \o s : x \in S, s \in {t \in shorter : Len(t) = n - 1}}

\* the frames handed to _send_request in the line specification
CrcInputs == SeqsUpTo(CrcBytes, MaxCrcLen)

\* frame with bit b of its byte i inverted
FlipBit(frame, i, b) ==
    [k \in 1..Len(frame) |-> IF k = i THEN BitXor(frame[k], Pow2(b)) ELSE frame[k]]

\* _send_request(d): the frame with its CRC is on the line
LineSend(d) ==
    /\ wire = <<>>
    /\ wire' = send_request(d)
    /\ UNCHANGED <<device, conn, lock, uart_rx, hw, http, reqs>>

\* the line brings the frame back as it was sent
LineEcho ==
    /\ wire /= <<>> /\ uart_rx = <<>>
    /\ uart_rx' = wire
    /\ UNCHANGED <<device, conn, lock, wire, hw, http, reqs>>

\* the line brings the frame back with one bit inverted
LineFlip(i, b) ==
    /\ wire /= <<>> /\ uart_rx = <<>>
    /\ i \in 1..Len(wire)
    /\ uart_rx' = FlipBit(wire, i, b)
    /\ UNCHANGED <<device, conn, lock, wire, hw, http, reqs>>

\* the CRC on its own: any frame is sent, comes back intact or with one bit
\* inverted, and is verified as _receive_response verifies it
NextCrc ==
    \/ \E d \in CrcInputs : LineSend(d)
    \/ LineEcho
    \/ \E i \in 1..(MaxCrcLen + 2), b \in 0..7 : LineFlip(i, b)

SpecCrc == InitConc /\ [][NextCrc]_vars

(***************************************************************************)
(* Properties.                                                             *)
(***************************************************************************)
\* the configured maximum number of connections of the design (the scenario
\* value); modbus_tcp_server.py has no such setting
max_connections == 1

\* the callers whose RTU transaction is in progress: the frame is sent and the
\* receive and CRC check are not done
InProgress ==
    {TcpCaller(c) : c \in {x \in Conns : conn[x].pc = "OnBus"}}
        \cup {HttpCaller(h) : h \in {x \in Https : http[x].pc = "OnBus"}}

\* the response ADU of connection c to the request most recently read: what is
\* written of it and what _send_all still holds
ResponseADU(c) == conn[c].out \o conn[c].resp

\* its PDU
ResponsePDU(c) == Drop(ResponseADU(c), 7)

\* the request most recently read on c has been dispatched and its response
\* is being written or is written
Answered(c) ==
    /\ conn[c].pdu /= <<>>
    /\ \/ conn[c].pc = "SendResponse"
       \/ conn[c].pc = "AwaitHeader" /\ conn[c].out /= <<>>

\* C1: at most one RTU transaction is in progress at a time, and it is the lock
\* holder's: no caller's send begins before the transaction acquired before it
\* has finished its receive and CRC check
C1_OneTransaction ==
    /\ Cardinality(InProgress) <= 1
    /\ \A k \in InProgress : lock = k

\* C1 witness: an API call is on the bus while a TCP handler waits for the lock
C1_Witness ==
    \E c \in Conns, h \in Https :
        conn[c].pc = "WaitBus" /\ http[h].pc = "OnBus" /\ lock = HttpCaller(h)

\* the line delivered no valid reply: nothing, or a reply whose CRC is wrong
NoValidReply(reply) == reply = <<>> \/ (Len(reply) >= 2 /\ CrcMismatch(reply))

\* C2 (as claimed): a forwarded request that gets no valid reply is answered
\* with exactly function_code|0x80, 0x04, for reads and writes alike
C2_TimeoutIsException04 ==
    \A c \in Conns :
        (Answered(c) /\ conn[c].bus > 0 /\ NoValidReply(conn[c].reply))
            => ResponsePDU(c) = <<ExcCode(conn[c].pdu[1]), 4>>

\* the line delivered a CRC-valid reply whose function-code byte has its high bit set
ExceptionReply(reply) ==
    Len(reply) >= 5 /\ ~CrcMismatch(reply) /\ reply[2] >= 128

\* C3: a CRC-valid device reply with the high bit of the function code set is
\* answered with exactly function_code|0x80 and the byte after the function
\* code of the RTU reply
C3_ExceptionForwarded ==
    \A c \in Conns :
        (Answered(c) /\ conn[c].bus > 0 /\ ExceptionReply(conn[c].reply))
            => ResponsePDU(c) = <<ExcCode(conn[c].pdu[1]), conn[c].reply[3]>>

\* C3 witness: exception code 255 reported to a write-multiple-registers
\* request has been answered
C3_Witness ==
    \E c \in Conns :
        /\ Answered(c) /\ conn[c].bus > 0 /\ ExceptionReply(conn[c].reply)
        /\ conn[c].reply[3] = 255 /\ conn[c].pdu[1] = 16
        /\ conn[c].out = ResponseADU(c)

\* C4: whatever is written in answer to a request begins with the two
\* transaction-id bytes of that request
C4_TransactionIdEchoed ==
    \A c \in Conns :
        ResponseADU(c) /= <<>> => Take(ResponseADU(c), 2) = Take(conn[c].req, 2)

\* C4 witness: the second request on a connection, sent ahead with another
\* transaction id than the first, has been answered completely
C4_Witness ==
    \E c \in Conns :
        /\ reqs = 2 /\ conn[c].pc = "AwaitHeader" /\ conn[c].resp = <<>>
        /\ Len(conn[c].out) > 7 /\ Take(conn[c].req, 2) = <<2, 1>>
        /\ conn[c].inbuf = <<>>

\* the protocol id of the header most recently read
ReqProtocol(c) == UnpackH(Slice(conn[c].req, 2, 4))

\* C5: after a header with protocol_id /= 0 the handler is closed, has written
\* nothing, has read nothing of the body and has not used the bus
C5_BadProtocolCloses ==
    \A c \in Conns :
        (conn[c].req /= <<>> /\ ReqProtocol(c) /= 0)
            => /\ conn[c].pc = "Closed"
               /\ conn[c].out = <<>> /\ conn[c].resp = <<>>
               /\ conn[c].pdu = <<>> /\ conn[c].data = <<>>
               /\ Len(conn[c].inbuf) = UnpackH(Slice(conn[c].req, 4, 6)) - 1
               /\ conn[c].bus = 0 /\ lock /= TcpCaller(c)

\* C5 witness: a header with protocol id 0x0100 has been read
C5_Witness ==
    \E c \in Conns : conn[c].req /= <<>> /\ ReqProtocol(c) = 256

\* the request most recently read has left Dispatch
Dispatched(c) == conn[c].pdu /= <<>> /\ conn[c].pc /= "Dispatch"

\* the request was answered at once with the exception PDU function_code|0x80,
\* code and the bus was left alone
Rejected(c, code) ==
    /\ conn[c].bus = 0 /\ conn[c].call = NoCall
    /\ conn[c].pc \notin {"WaitBus", "OnBus"} /\ lock /= TcpCaller(c)
    /\ conn[c].pc /= "Closed" =>
          ResponsePDU(c) = <<ExcCode(conn[c].pdu[1]), code>>

\* C6: a PDU with an unsupported function code is answered with
\* function_code|0x80, 0x01 and starts no bus transaction
C6_IllegalFunction ==
    \A c \in Conns :
        (Dispatched(c) /\ conn[c].pdu[1] \notin Supported) => Rejected(c, 1)

\* C6 witness: function code 0x83 has been answered completely
C6_Witness ==
    \E c \in Conns :
        /\ Dispatched(c) /\ conn[c].pdu[1] = 131
        /\ conn[c].pc = "AwaitHeader" /\ Len(conn[c].out) = 9

\* a PDU shorter than the minimum of its function
TooShort(pdu) ==
    \/ pdu[1] \in {1, 2, 3, 4, 5, 6} /\ Len(pdu) < 5
    \/ pdu[1] \in {15, 16} /\ (Len(pdu) < 6 \/ Len(pdu) < 6 + pdu[6])

\* C7: a PDU shorter than the minimum of its supported function is answered
\* with function_code|0x80, 0x03 and starts no bus transaction
C7_ShortPduRejected ==
    \A c \in Conns :
        (Dispatched(c) /\ TooShort(conn[c].pdu)) => Rejected(c, 3)

\* C7 witness: a write-multiple-registers PDU with fewer data bytes than its
\* byte count has been answered completely
C7_Witness ==
    \E c \in Conns :
        /\ Dispatched(c) /\ conn[c].pdu = <<16, 0, 0, 0, 1, 2, 0>>
        /\ conn[c].pc = "AwaitHeader" /\ Len(conn[c].out) = 9

\* a multi-value write whose byte count does not fit its item count
Inconsistent(pdu) ==
    /\ Len(pdu) >= 6
    /\ \/ pdu[1] = 15 /\ pdu[6] /= (UnpackH(Slice(pdu, 3, 5)) + 7) \div 8
       \/ pdu[1] = 16 /\ pdu[6] /= UnpackH(Slice(pdu, 3, 5)) * 2

\* C8 (as claimed): a multi-value write whose byte count does not fit its item
\* count is answered with function_code|0x80, 0x03 and never reaches the bus
C8_InconsistentCountRejected ==
    \A c \in Conns :
        (Dispatched(c) /\ Inconsistent(conn[c].pdu)) => Rejected(c, 3)

\* C9 (as claimed): the connections accepted and not yet terminated never
\* exceed the configured maximum
C9_ConnectionCap == Cardinality(Active) <= max_connections

\* C10 (as claimed): a connection that arrives while the maximum is being
\* served never enters the handler state machine
C10_ExcessConnectionClosed ==
    \A c \in Conns :
        conn[c].others >= max_connections
            => /\ conn[c].pc \in {"Unconnected", "Closed"}
               /\ conn[c].req = <<>> /\ conn[c].out = <<>> /\ conn[c].bus = 0

\* the line delivered bytes whose last two are not the CRC16 of those before them
BadCrcReply(reply) == Len(reply) >= 2 /\ CrcMismatch(reply)

\* the RTU operation of connection c has returned to its handler
Returned(c) == conn[c].bus > 0 /\ conn[c].pc \notin {"WaitBus", "OnBus"}

\* what the operation of connection c returns when the line stays silent
SilentResult(c) == rtu_result(conn[c].call, receive_response(hw, <<>>))

\* C11 (as claimed): a reply whose last two bytes are not the CRC16 of the bytes
\* before them gives the caller no data and no exception code, and the
\* operation's result is the one it has when no reply arrives at all
C11_BadCrcIsNoReply ==
    \A c \in Conns :
        (Returned(c) /\ BadCrcReply(conn[c].reply))
            => /\ conn[c].result.kind \notin {"list", "error", "True"}
               /\ conn[c].result = SilentResult(c)

\* C12: a frame followed by its computed CRC passes the CRC verification, and
\* the same frame with any single bit inverted fails it
C12_CrcRoundTrip ==
    (wire /= <<>> /\ uart_rx /= <<>>)
        => /\ uart_rx = wire => ~CrcMismatch(uart_rx)
           /\ uart_rx /= wire => CrcMismatch(uart_rx)

\* C12 witness: a frame of the greatest length came back with a bit of its
\* first byte inverted and failed the verification
C12_Witness ==
    /\ Len(uart_rx) = MaxCrcLen + 2 /\ Len(wire) = Len(uart_rx)
    /\ uart_rx[1] /= wire[1] /\ Drop(uart_rx, 1) = Drop(wire, 1)
    /\ CrcMismatch(uart_rx)

\* the line delivered a complete CRC-valid reply that is no exception and
\* carries whole registers: unit, function code, byte count 2n, 2n data bytes
RegisterReply(reply) ==
    /\ Len(reply) >= 5 /\ ~CrcMismatch(reply) /\ reply[2] < 128
    /\ Len(reply) = reply[3] + 5 /\ reply[3] % 2 = 0

\* C13: a read of holding or input registers answered by a CRC-valid reply
\* with n registers gets the PDU function code, 2n, and the 2n data bytes of
\* the device in its order, high byte first; registers 10, 20, 30 give
\* 03 06 00 0A 00 14 00 1E
C13_RegisterReadReply ==
    \A c \in Conns :
        (Answered(c) /\ conn[c].bus > 0 /\ conn[c].pdu[1] \in {3, 4}
                     /\ RegisterReply(conn[c].reply))
            => /\ ResponsePDU(c) =
                    <<conn[c].pdu[1], conn[c].reply[3]>>
                        \o Slice(conn[c].reply, 3, 3 + conn[c].reply[3])
               /\ conn[c].pdu = <<3, 0, 0, 0, 3>>
                    => ResponsePDU(c) = <<3, 6, 0, 10, 0, 20, 0, 30>>
               /\ conn[c].pdu = <<4, 0, 3, 0, 1>>
                    => ResponsePDU(c) = <<4, 2, 18, 52>>

\* C13 witness: the read of three holding registers holding 10, 20, 30 has
\* been answered completely
C13_Witness ==
    \E c \in Conns :
        /\ Answered(c) /\ conn[c].bus > 0 /\ RegisterReply(conn[c].reply)
        /\ conn[c].pdu = <<3, 0, 0, 0, 3>>
        /\ conn[c].out = ResponseADU(c)
        /\ ResponsePDU(c) = <<3, 6, 0, 10, 0, 20, 0, 30>>

\* the line delivered a complete CRC-valid write acknowledgement: unit,
\* function code, two 16-bit fields, CRC, and no exception
AckReply(reply) == Len(reply) = 8 /\ ~CrcMismatch(reply) /\ reply[2] < 128

\* C14: a write acknowledged by a CRC-valid non-exception reply is answered
\* with the fields of the request itself: function code, address and value
\* for 0x05 and 0x06; function code, start address and item count, and
\* nothing else, for 0x0F and 0x10
C14_WriteEchoesRequest ==
    \A c \in Conns :
        (Answered(c) /\ conn[c].bus > 0 /\ conn[c].pdu[1] \in {5, 6, 15, 16}
                     /\ AckReply(conn[c].reply))
            => /\ Take(ResponsePDU(c), 5) = Take(conn[c].pdu, 5)
               /\ conn[c].pdu[1] \in {15, 16} => Len(ResponsePDU(c)) = 5

\* C14 witness: a write of two registers at address 1, acknowledged, has been
\* answered completely with 10 00 01 00 02
C14_Witness ==
    \E c \in Conns :
        /\ Answered(c) /\ conn[c].bus > 0 /\ AckReply(conn[c].reply)
        /\ conn[c].pdu[1] = 16
        /\ conn[c].out = ResponseADU(c)
        /\ ResponsePDU(c) = <<16, 0, 1, 0, 2>>

\* C15: every response ADU has protocol id 0, a length field of the length of
\* its PDU plus one, and the unit id of the request it answers; of a response
\* whose writing was given up (the handler is closed) a part is written, and
\* the length field counts the PDU bytes written and those that were not
C15_ResponseHeader ==
    \A c \in Conns :
        ResponseADU(c) /= <<>>
            => /\ Len(ResponseADU(c)) >= 7
               /\ UnpackH(Slice(ResponseADU(c), 2, 4)) = 0
               /\ ResponseADU(c)[7] = conn[c].req[7]
               /\ UnpackH(Slice(ResponseADU(c), 4, 6)) >= Len(ResponsePDU(c)) + 1
               /\ conn[c].pc /= "Closed"
                    => /\ Len(ResponsePDU(c)) > 0
                       /\ UnpackH(Slice(ResponseADU(c), 4, 6)) = Len(ResponsePDU(c)) + 1

\* C15 witness: the read of three registers of unit 17 has been answered
\* completely, with length field 9
C15_Witness ==
    \E c \in Conns :
        /\ conn[c].out /= <<>> /\ conn[c].out = ResponseADU(c)
        /\ conn[c].req[7] = 17
        /\ Slice(conn[c].out, 2, 7) = <<0, 0, 0, 9, 17>>

\* the handler of c waits for header bytes, the client holds the connection
\* open and nothing it has sent is unread
HeaderStall(c) ==
    conn[c].pc = "AwaitHeader" /\ conn[c].peer = "open" /\ conn[c].inbuf = <<>>

\* C16 (as claimed): the wait for a header that does not come, or comes in
\* part, on a connection the client keeps open does not last forever
C16_HeaderWaitEnds ==
    \A c \in LiveConns : HeaderStall(c) ~> ~HeaderStall(c)

\* the handler of c waits for the bytes a header announced, the client holds
\* the connection open and nothing it has sent is unread
BodyStall(c) ==
    conn[c].pc = "AwaitBody" /\ conn[c].peer = "open" /\ conn[c].inbuf = <<>>

\* C17 (as claimed): the wait for a body that stays incomplete on a connection
\* the client keeps open does not last forever
C17_BodyWaitEnds ==
    \A c \in LiveConns : BodyStall(c) ~> ~BodyStall(c)

\* the handler of c has a response to write and every send on its socket
\* raises an I/O error
WriteFailing(c) == conn[c].pc = "SendResponse" /\ conn[c].peer = "reset"

\* C18 (as claimed): a response whose write fails is given up and the handler
\* reaches Closed
C18_WriteFailureCloses ==
    \A c \in LiveConns : WriteFailing(c) ~> conn[c].pc = "Closed"

\* C19: the lock is free whenever no transaction is in progress; a transaction
\* that holds the lock releases it, whatever its outcome; a caller that waits
\* for the lock gets it
C19_LockAlwaysReleased ==
    /\ [](InProgress = {} => lock = NoHolder)
    /\ \A c \in LiveConns :
          /\ (lock = TcpCaller(c)) ~> (lock = NoHolder)
          /\ (conn[c].pc = "WaitBus") ~> (conn[c].pc = "OnBus")

\* C19 witness: a transaction ended by a raised error, and the caller that
\* waited for the lock meanwhile holds it now
C19_Witness ==
    \E c, d \in LiveConns :
        /\ c /= d
        /\ conn[c].pc = "SendResponse" /\ conn[c].result.kind = "raise"
        /\ conn[d].pc = "OnBus" /\ lock = TcpCaller(d)

\* a step in which the handler of c fails: it ends, or the decoding of the
\* device's reply raises
FailureStep(c) ==
    \/ conn[c].pc /= "Closed" /\ conn'[c].pc = "Closed"
    \/ conn[c].pc = "OnBus" /\ conn'[c].pc /= "OnBus"
         /\ conn'[c].result.kind = "raise"

\* C20: a failure in the handler of one connection changes nothing in any
\* other handler; the listener still accepts every connection not yet made;
\* the valid request of another connection is still answered
C20_FailureStaysLocal ==
    /\ [][\A c \in LiveConns :
            FailureStep(c) => \A d \in LiveConns \ {c} : conn'[d] = conn[d]]_vars
    /\ [](\A d \in LiveConns : conn[d].pc = "Unconnected" => ENABLED Accept(d))
    /\ \A d \in SoundConns :
          (conn[d].pc = "AwaitHeader" /\ conn[d].inbuf /= <<>>)
              ~> (conn[d].pc = "SendResponse" /\ Len(conn[d].resp) > 7)

\* C20 witness: the handler of the misbehaving client has ended and the other
\* connection has the whole answer to its request
C20_Witness ==
    \E c \in FaultyConns, d \in SoundConns :
        /\ conn[c].pc = "Closed"
        /\ conn[d].pc = "AwaitHeader" /\ Len(conn[d].out) > 7
        /\ Take(conn[d].out, 2) = Take(conn[d].req, 2)

\* the moves of a handler from one position to the next; Dispatch covers the
\* wait for the lock and the transaction on the bus
HandlerCycle ==
    { <<"Unconnected", "AwaitHeader">>,
      <<"AwaitHeader", "AwaitBody">>, <<"AwaitHeader", "Closed">>,
      <<"AwaitBody", "Dispatch">>, <<"AwaitBody", "Closed">>,
      <<"Dispatch", "WaitBus">>, <<"WaitBus", "OnBus">>, <<"OnBus", "SendResponse">>,
      <<"Dispatch", "SendResponse">>,
      <<"SendResponse", "AwaitHeader">>, <<"SendResponse", "Closed">> }

\* what one step may do to the handler of c
CycleStep(c) ==
    /\ conn'[c].pc /= conn[c].pc => <<conn[c].pc, conn'[c].pc>> \in HandlerCycle
    /\ (conn[c].pc = "SendResponse" /\ conn'[c].pc = "AwaitHeader")
          => /\ conn'[c].resp = <<>>
             /\ conn'[c].out = conn[c].out \o conn[c].resp
             /\ Len(conn'[c].out) = 6 + UnpackH(Slice(conn'[c].out, 4, 6))
    /\ (conn'[c].data /= conn[c].data \/ conn'[c].req /= conn[c].req
            \/ Len(conn'[c].inbuf) < Len(conn[c].inbuf))
          => /\ conn[c].pc \in {"AwaitHeader", "AwaitBody"}
             /\ conn[c].resp = <<>> /\ lock /= TcpCaller(c)
    /\ (conn'[c].bus /= conn[c].bus /\ conn'[c].bus /= 0)
          => conn[c].pc = "WaitBus" /\ conn[c].resp = <<>> /\ conn[c].bus = 0
    /\ conn[c].pc = "Closed"
          => conn'[c] = conn[c] /\ lock' = lock /\ wire' = wire /\ uart_rx' = uart_rx

\* C21: a handler moves AwaitHeader -> AwaitBody -> Dispatch -> SendResponse ->
\* AwaitHeader; it reads nothing of the next request before the response to
\* the previous one is written completely, serves one request at a time, and
\* once Closed it reads, writes and uses the bus no more
C21_HandlerCycle == [][\A c \in DataConns : CycleStep(c)]_vars

\* C21 witness: a part of the response is written, the rest is not, and the
\* next request of the client is waiting unread
C21_Witness ==
    \E c \in DataConns :
        /\ conn[c].pc = "SendResponse" /\ conn[c].out /= <<>> /\ conn[c].resp /= <<>>
        /\ conn[c].inbuf /= <<>> /\ reqs = 2

\* the handler of c is at its own socket: it waits for a header or a body, or
\* writes a response
AtSocket(c) == conn[c].pc \in {"AwaitHeader", "AwaitBody", "SendResponse"}

\* C22: a handler that is at its own socket, stalled or failing there or not,
\* does not hold the bus lock, and the valid request of another connection
\* that waits for the bus gets its transaction and its answer
C22_StallDoesNotBlock ==
    /\ [](\A c \in LiveConns : AtSocket(c) => lock /= TcpCaller(c))
    /\ \A d \in SoundConns :
          /\ (conn[d].pc = "WaitBus") ~> (conn[d].pc = "OnBus" /\ lock = TcpCaller(d))
          /\ (conn[d].pc = "OnBus")
                ~> (conn[d].pc = "SendResponse" /\ conn[d].bus = 1
                        /\ Len(conn[d].resp) > 7)

\* C22 witness: one handler sleeps after a failed send of its response on a
\* reset connection while the request of the other connection is on the bus
C22_Witness ==
    \E c \in FaultyConns, d \in SoundConns :
        /\ conn[c].pc = "SendResponse" /\ conn[c].peer = "reset" /\ conn[c].asleep
        /\ conn[d].pc = "OnBus" /\ lock = TcpCaller(d)

\* the line delivered a complete CRC-valid reply that is no exception: unit,
\* function code, byte count, that many data bytes, CRC
BitsReply(reply) ==
    /\ Len(reply) >= 5 /\ ~CrcMismatch(reply) /\ reply[2] < 128
    /\ Len(reply) = reply[3] + 5

\* the number of values a read of count bits gets from that reply
BitsKept(reply, count) == Min(count, 8 * reply[3])

\* data byte i of the reply with the bits beyond the values kept cleared
KeptByte(reply, count, i) ==
    IF 8 * i <= BitsKept(reply, count) THEN reply[3 + i]
    ELSE reply[3 + i] % Pow2(BitsKept(reply, count) - 8 * (i - 1))

\* C23: a read of c coils or discrete inputs answered by a CRC-valid reply
\* decodes to the reply's data bits, LSB first within each byte in byte order,
\* at most c of them; the TCP reply PDU is the function code, ceil(k/8) for
\* the k values, and the data bytes of the device with every bit beyond the
\* k-th cleared
C23_BitReadReply ==
    \A c \in Conns :
        (Answered(c) /\ conn[c].bus > 0 /\ conn[c].pdu[1] \in {1, 2}
                     /\ BitsReply(conn[c].reply))
            => LET reply == conn[c].reply
                   k == BitsKept(reply, conn[c].call.count)
                   vals == conn[c].result.vals
               IN  /\ conn[c].result.kind = "list" /\ Len(vals) = k
                   /\ \A j \in 1..k :
                         vals[j] = ((reply[3 + ((j - 1) \div 8) + 1]
                                        \div Pow2((j - 1) % 8)) % 2 = 1)
                   /\ ResponsePDU(c) =
                         <<conn[c].pdu[1], (k + 7) \div 8>>
                             \o [i \in 1..((k + 7) \div 8) |->
                                    KeptByte(reply, conn[c].call.count, i)]
                   /\ (conn[c].pdu = <<1, 0, 0, 0, 10>> /\ reply[3] = 2)
                         => ResponsePDU(c) = <<1, 2, 205, 3>>

\* C23 witness: ten coils were asked for, the device sent the bytes CD FF, and
\* the answer 01 02 CD 03 is written completely
C23_Witness ==
    \E c \in Conns :
        /\ Answered(c) /\ conn[c].bus > 0 /\ BitsReply(conn[c].reply)
        /\ conn[c].pdu = <<1, 0, 0, 0, 10>> /\ Slice(conn[c].reply, 2, 5) = <<2, 205, 255>>
        /\ conn[c].out = ResponseADU(c)
        /\ ResponsePDU(c) = <<1, 2, 205, 3>>

\* bit j (from 1, LSB first within each byte in byte order) of the bytes data
BitOf(data, j) == (data[((j - 1) \div 8) + 1] \div Pow2((j - 1) % 8)) % 2 = 1

\* the data bytes of the frame on the bus: what follows its byte count, CRC
\* excluded
WireData == Slice(wire, 7, Len(wire) - 2)

\* C24: the frame of a write of several coils carries the number of values as
\* its count, ceil(count/8) as its byte count and the values packed LSB first
\* with the unused bits zero; the frame of a write of several registers carries
\* the number of values, twice that as its byte count and each value high byte
\* first, in order; and when the byte count of the TCP request fits its count,
\* the data bytes on the bus are those of the request, the bits of a coil
\* request beyond its count cleared
C24_MultiWriteFrame ==
    \A c \in DataConns :
        (conn[c].bus > 0 /\ conn[c].pdu[1] \in {15, 16})
            => LET pdu == conn[c].pdu
                   values == conn[c].call.values
                   n == Len(values)
               IN  /\ Len(wire) >= 9 /\ wire[2] = pdu[1]
                   /\ UnpackH(Slice(wire, 4, 6)) = n
                   /\ Len(WireData) = wire[7]
                   /\ pdu[1] = 15 =>
                        /\ wire[7] = (n + 7) \div 8
                        /\ \A j \in 1..(8 * wire[7]) :
                              BitOf(WireData, j) = (j <= n /\ values[j])
                   /\ pdu[1] = 16 =>
                        /\ wire[7] = n * 2
                        /\ \A j \in 1..n :
                              <<WireData[2 * j - 1], WireData[2 * j]>> = PackH(values[j])
                   /\ ~Inconsistent(pdu) =>
                        /\ n = UnpackH(Slice(pdu, 3, 5)) /\ wire[7] = pdu[6]
                        /\ pdu[1] = 16 => WireData = Slice(pdu, 6, 6 + pdu[6])
                        /\ pdu[1] = 15 =>
                              \A j \in 1..(8 * pdu[6]) :
                                  BitOf(WireData, j)
                                      = (j <= n /\ BitOf(Slice(pdu, 6, 6 + pdu[6]), j))

\* C24 witness: ten coils written with the bytes CD FF are on the bus as CD 03
C24_Witness ==
    \E c \in DataConns :
        /\ conn[c].bus > 0 /\ conn[c].pdu = <<15, 0, 0, 0, 10, 2, 205, 255>>
        /\ Slice(wire, 2, 9) = <<0, 0, 0, 10, 2, 205, 3>>

\* C25: the value field of a write-single-coil frame on the bus is FF 00 or
\* 00 00, and it is FF 00 exactly when the value field of the TCP request is
\* FF 00
C25_CoilValueField ==
    \A c \in DataConns :
        (conn[c].bus > 0 /\ conn[c].pdu[1] = 5)
            => /\ Len(wire) = 8 /\ wire[2] = 5
               /\ Slice(wire, 4, 6) \in {<<255, 0>>, <<0, 0>>}
               /\ (Slice(wire, 4, 6) = <<255, 0>>)
                     <=> (Slice(conn[c].pdu, 3, 5) = <<255, 0>>)

\* C25 witness: the request with value field 00 01 is on the bus with 00 00
C25_Witness ==
    \E c \in DataConns :
        /\ conn[c].bus > 0 /\ conn[c].pdu = <<5, 0, 1, 0, 1>>
        /\ Slice(wire, 1, 6) = <<5, 0, 1, 0, 0>>

\* the length _receive_response expects of a reply whose first four bytes have
\* arrived: count byte + 5 for the function codes 1-4, 8 for every other
ExpectedLen(reply) == IF reply[2] \in {1, 2, 3, 4} THEN reply[3] + 5 ELSE 8

\* the reply the line delivered is a complete frame of the expected length
\* with a valid CRC
CompleteFrame(reply) ==
    /\ Len(reply) >= 4 /\ Len(reply) = ExpectedLen(reply)
    /\ ~CrcMismatch(reply)

\* the operation of connection c got a frame from _receive_response: it
\* returned data, an exception code or True
FrameReturned(c) == conn[c].result.kind \in {"list", "error", "True"}

\* C26 (as claimed): on hardware a frame is returned only when a complete
\* frame of the expected length with a valid CRC has arrived, and when fewer
\* bytes than that have arrived the outcome is None
C26_CompleteFrameOrNone ==
    \A c \in DataConns :
        (hw /\ Returned(c))
            => /\ FrameReturned(c) => CompleteFrame(conn[c].reply)
               /\ (Len(conn[c].reply) < 4
                     \/ Len(conn[c].reply) < ExpectedLen(conn[c].reply))
                    => conn[c].result = SilentResult(c)

\* the frame on the bus is unit id, function code, payload and the CRC16 of
\* all of these, low byte first; the unit id is that of the MBAP header and the
\* function code that of the PDU
FrameEnvelope(c) ==
    /\ Len(wire) >= 4
    /\ LET body == Take(wire, Len(wire) - 2)
           crc == CrcFold(65535, body, 1)
       IN  Drop(wire, Len(wire) - 2) = << crc % 256, crc \div 256 >>
    /\ wire[1] = conn[c].req[7]
    /\ wire[2] = conn[c].pdu[1]

\* C27 (as claimed): every frame on the bus for a forwarded request is unit id
\* + function code + payload + CRC16, with the unit id of the MBAP header, and
\* for the reads and the single writes the address and the quantity or value
\* are the fields of the TCP PDU unchanged
C27_FrameFieldsUnchanged ==
    \A c \in DataConns :
        conn[c].bus > 0
            => /\ FrameEnvelope(c)
               /\ conn[c].pdu[1] \in {1, 2, 3, 4, 5, 6}
                    => Len(wire) = 8 /\ Slice(wire, 2, 6) = Slice(conn[c].pdu, 1, 5)

\* C27 (amended): the same, except that the value of a write-single-coil goes
\* out as FF 00 when the request's value is FF 00 and as 00 00 for every other
\* request value
C27_FrameFields ==
    \A c \in DataConns :
        conn[c].bus > 0
            => /\ FrameEnvelope(c)
               /\ conn[c].pdu[1] \in {1, 2, 3, 4, 6}
                    => Len(wire) = 8 /\ Slice(wire, 2, 6) = Slice(conn[c].pdu, 1, 5)
               /\ conn[c].pdu[1] = 5
                    => /\ Len(wire) = 8 /\ Slice(wire, 2, 4) = Slice(conn[c].pdu, 1, 3)
                       /\ Slice(wire, 4, 6) =
                            (IF Slice(conn[c].pdu, 3, 5) = <<255, 0>>
                             THEN <<255, 0>> ELSE <<0, 0>>)

\* C27 witness: the read of one input register at address 3 of unit 1 is on
\* the bus as 01 04 00 03 00 01 and its CRC
C27_Witness ==
    \E c \in DataConns :
        /\ conn[c].bus > 0 /\ conn[c].pc = "OnBus"
        /\ conn[c].pdu = <<4, 0, 3, 0, 1>>
        /\ Take(wire, 6) = <<1, 4, 0, 3, 0, 1>> /\ Len(wire) = 8

\* C28 (as claimed): on hardware a write called through the HTTP API to which the device
\* sends no valid reply is answered with success = false and "Communication
\* timeout", never with a success message
C28_ApiWriteTimeout ==
    \A h \in Https :
        (hw /\ http[h].pc = "Done" /\ http[h].call.fc \in {5, 6, 15, 16}
            /\ NoValidReply(http[h].reply))
            => /\ ~http[h].response.success
               /\ http[h].response.error = "Communication timeout"

\* a header with protocol id 0 whose length field is 1: no PDU byte follows
\* the unit id
EmptyPduHeader(header) ==
    /\ Len(header) = 7
    /\ UnpackH(Slice(header, 2, 4)) = 0 /\ UnpackH(Slice(header, 4, 6)) = 1

\* C29 (as claimed): a request with an empty PDU is answered with 80 01 and
\* uses the bus not at all: the handler does not close on reading its header,
\* and what it writes in answer is the PDU 80 01
C29_EmptyPduAnswered ==
    /\ [][\A c \in DataConns :
            (conn[c].pc = "AwaitHeader" /\ conn[c].inbuf /= <<>>
                /\ conn'[c].pc /= "AwaitHeader" /\ EmptyPduHeader(conn'[c].req))
              => conn'[c].pc /= "Closed"]_vars
    /\ [](\A c \in DataConns :
            EmptyPduHeader(conn[c].req)
              => /\ conn[c].bus = 0 /\ lock /= TcpCaller(c)
                 /\ (conn[c].pc /= "Closed" /\ ResponseADU(c) /= <<>>)
                       => ResponsePDU(c) = <<128, 1>>)

\* the request most recently read is well-formed for a supported function
WellFormed(pdu) == pdu[1] \in Supported /\ ~TooShort(pdu) /\ ~Inconsistent(pdu)

\* what one step may do to the response and the transaction of the request
\* the handler of c is serving
OneEachStep(c) ==
    /\ (conn[c].pc = "Dispatch" /\ conn'[c].pc /= "Dispatch")
          => \/ conn'[c].pc = "WaitBus" /\ conn'[c].resp = <<>>
             \/ conn'[c].pc = "SendResponse" /\ conn'[c].resp /= <<>>
                    /\ conn'[c].bus = 0
    /\ (conn[c].pc = "OnBus" /\ conn'[c].pc /= "OnBus")
          => conn'[c].pc = "SendResponse" /\ conn'[c].resp /= <<>>
    /\ (conn[c].resp = <<>> /\ conn'[c].resp /= <<>>)
          => conn[c].pc \in {"Dispatch", "OnBus"} /\ conn[c].out = <<>>
    /\ (conn'[c].out /= conn[c].out /\ conn'[c].out /= <<>>)
          => /\ conn'[c].out \o conn'[c].resp = conn[c].out \o conn[c].resp
             /\ conn'[c].req = conn[c].req
             /\ Take(conn'[c].out, 2) = Take(conn[c].req, 2)

\* C30: every request that reaches Dispatch gets exactly one response ADU and
\* at most one bus transaction: exactly one when it is well-formed for a
\* supported function, none when its function is unsupported or its PDU too
\* short; and what is written on a connection is the answer to the request
\* most recently read there, so the responses leave in the order of the requests
C30_OneResponseOneTransaction ==
    /\ [][\A c \in DataConns : OneEachStep(c)]_vars
    /\ [](\A c \in DataConns :
            /\ conn[c].bus <= 1
            /\ Answered(c)
                 => /\ Len(ResponseADU(c)) > 7
                    /\ Len(ResponseADU(c)) = 6 + UnpackH(Slice(ResponseADU(c), 4, 6))
                    /\ WellFormed(conn[c].pdu) => conn[c].bus = 1
                    /\ (conn[c].pdu[1] \notin Supported \/ TooShort(conn[c].pdu))
                          => conn[c].bus = 0)

\* C30 witness: two requests were read on one connection, the second needed
\* one transaction, and its answer is written completely
C30_Witness ==
    \E c \in DataConns :
        /\ reqs = 2 /\ conn[c].pc = "AwaitHeader" /\ conn[c].inbuf = <<>>
        /\ Take(conn[c].req, 2) = <<2, 2>> /\ conn[c].bus = 1
        /\ conn[c].out = ResponseADU(c) /\ Take(conn[c].out, 2) = <<2, 2>>

\* C31 (as claimed): an operation returns data or success only for a CRC-valid
\* reply that carries the unit id and the function code of the frame it sent
C31_ReplyMatchesRequest ==
    \A c \in DataConns :
        (hw /\ Returned(c) /\ conn[c].result.kind \in {"list", "True"})
            => /\ Len(conn[c].reply) >= 5 /\ ~CrcMismatch(conn[c].reply)
               /\ conn[c].reply[1] = conn[c].call.slave
               /\ conn[c].reply[2] = conn[c].call.fc

\* C32 (as claimed): the reply PDU of a successful write is exactly 5 bytes
\* for all four write function codes, whatever follows the defined fields of
\* the request PDU
C32_WriteReplyFiveBytes ==
    \A c \in Conns :
        (Answered(c) /\ conn[c].pdu[1] \in {5, 6, 15, 16}
                     /\ conn[c].bus > 0 /\ conn[c].result.kind = "True")
            => Len(ResponsePDU(c)) = 5

\* C33 (as claimed): the item count echoed to the client for a write of several
\* coils or registers answered with success is the item count of the RTU frame
\* that was sent on the bus
C33_EchoedCountIsFrameCount ==
    \A c \in DataConns :
        (Answered(c) /\ conn[c].bus > 0 /\ conn[c].pdu[1] \in {15, 16}
                     /\ conn[c].result.kind = "True"
                     /\ ResponsePDU(c)[1] = conn[c].pdu[1])
            => /\ Len(ResponsePDU(c)) = 5 /\ Len(wire) >= 6
               /\ Slice(ResponsePDU(c), 3, 5) = Slice(wire, 4, 6)

\* C34: a connection handler that has terminated, by whichever path, has closed
\* its client socket; and the socket of a handler that is still running is open
C34_SocketClosedAtExit ==
    \A c \in Conns :
        /\ conn[c].pc = "Closed" => conn[c].sock = "closed"
        /\ conn[c].pc \notin {"Unconnected", "Closed"} => conn[c].sock = "open"

\* C34 witness: a handler has ended while it was writing a response (send
\* returned 0 after part of the response was written) and its socket is closed
C34_Witness ==
    \E c \in Conns :
        /\ conn[c].pc = "Closed" /\ conn[c].sock = "closed"
        /\ conn[c].pdu /= <<>> /\ Len(conn[c].out) \in 1..8

\* the operation of connection c has done its receive step: its result is what
\* _receive_response and the decoding make of the bytes the line delivered
Received(c) ==
    \E got \in {receive_response(hw, conn[c].reply)} :
    \E result \in {rtu_result(conn[c].call, got)} :
        conn[c].result = result

\* what one step may do to the transaction of connection c
TransactionStep(c) ==
    /\ conn[c].pc = "OnBus"
          => /\ lock = TcpCaller(c)
             /\ wire' = wire
             /\ conn'[c].pc \in {"OnBus", "SendResponse"}
    /\ (lock = TcpCaller(c) /\ lock' /= lock)
          => /\ conn[c].pc = "OnBus" /\ conn'[c].pc = "SendResponse"
             /\ lock' = NoHolder
             /\ Received(c)'
             /\ conn'[c].resp = full_response(conn[c].hdr,
                                    process_reply(conn[c].pdu, conn'[c].result))
             /\ \A d \in Conns \ {c} : conn'[d] = conn[d]
             /\ http' = http

\* C35: a transaction that has sent its frame holds the lock until its receive
\* step is done and releases it only with that step, nothing else is sent
\* meanwhile, and the handler is not ended in between; this is so also when the
\* client has closed or reset the connection, and then the receive step still
\* comes; the result goes to the caller's own handler and changes no other
C35_TransactionNotAbandoned ==
    /\ [][\A c \in LiveConns : TransactionStep(c)]_vars
    /\ \A c \in FaultyConns :
          (conn[c].pc = "OnBus" /\ conn[c].peer /= "open")
              ~> (conn[c].pc = "SendResponse" /\ Received(c) /\ lock /= TcpCaller(c))

\* C35 witness: the client of the first connection is gone, its transaction has
\* been completed with the device's reply, and the bus now serves the
\* transaction of the other connection
C35_Witness ==
    \E c \in FaultyConns, d \in SoundConns :
        /\ conn[c].peer /= "open" /\ conn[c].pc = "SendResponse"
        /\ conn[c].bus = 1 /\ conn[c].reply /= <<>> /\ conn[c].result.kind = "list"
        /\ conn[d].pc = "OnBus" /\ lock = TcpCaller(d)

\* the set api_modbus_config is said to accept for each parameter
AcceptedSet(key) ==
    CASE key = "uart_id" -> {0, 1}
      [] key = "baudrate" -> {1200, 2400, 4800, 9600, 19200, 38400, 57600, 115200}
      [] key = "parity" -> {0, 1, 2}
      [] key = "stop_bits" -> {1, 2}

\* a parameter that is given and is not a number of its set
OutsideSet(params, key) ==
    /\ params[key] /= NotGiven
    /\ ~(int(params[key]).ok /\ int(params[key]).value \in AcceptedSet(key))

\* a call of the configuration endpoint has just been answered
ConfigCall == device' /= device /\ device'.req.endpoint = "modbus_config"

\* C36 (as claimed): a call of modbus_config with any parameter outside its
\* set leaves the files unchanged, triggers no restart and is answered with
\* status 400; the configuration is written only when every parameter is in
\* its set
C36_InvalidConfigRejected ==
    [][ConfigCall =>
          /\ (\E key \in ParamKeys : OutsideSet(device'.req.params, key))
                => /\ device'.fs = device.fs
                   /\ ~device'.out.reset
                   /\ device'.out.status = 400
          /\ device'.out.success
                => \A key \in ParamKeys : ~OutsideSet(device'.req.params, key)]_vars

\* a call of the OTA endpoint has just been answered
OtaCall == device' /= device /\ device'.req.endpoint = "ota_update"

\* C37 (as claimed): a call of the OTA endpoint without force whose lookup
\* finds the local version as the latest tag is answered with success and the
\* action no_update; "Failed to check for updates" is the answer only when the
\* lookup failed; in both cases no file is changed and the device is not reset
C37_UpToDateIsNoUpdate ==
    [][(OtaCall /\ ~force_update(device'.req.check.force)) =>
          /\ (device'.req.check.latest /= 0
                /\ device'.req.check.latest = get_current_version(device.fs))
                => /\ device'.out.success /\ device'.out.text = "no_update"
                   /\ device'.fs = device.fs /\ ~device'.out.reset
          /\ device'.out.text = "Failed to check for updates. Check logs for details."
                => /\ device'.req.check.latest = 0
                   /\ device'.fs = device.fs /\ ~device'.out.reset]_vars

\* file name is the same file, or as absent, after the step as before it
Untouched(name) ==
    /\ name \in DOMAIN device'.fs <=> name \in DOMAIN device.fs
    /\ name \in DOMAIN device.fs => device'.fs[name] = device.fs[name]

\* the names of the files an update must leave alone: those of the exclusion
\* list, and every name that holds one of them
ExcludedNames ==
    files_to_exclude
        \cup { n \in DOMAIN device.fs \cup DOMAIN device'.fs : excluded(n) }

\* a name that ends in ".tmp"
TempName(name) == Len(name) > 2 /\ Drop(name, Len(name) - 2) = <<".", "tmp">>

====
